---------------------------- MODULE Spec2Model ----------------------------
(***************************************************************************)
(* A model of the SMT-PNR place-and-route engine.                          *)
(*                                                                         *)
(*   PlaceSpec  : the placement constraint generators of pnr/constraints.py*)
(*                applied to a design and a candidate solver model.        *)
(*   Spec       : the routing engine: build_msgraph, the routing constraint*)
(*                generators, the solver's answer and route_model_reader.  *)
(*   EmitSpec   : the routing constraint generators alone, on two fabrics  *)
(*                and with any dist_factor.                                *)
(*   DriverSpec : the phase order of the command line driver (test.py).    *)
(***************************************************************************)
EXTENDS Integers, Sequences, FiniteSets, TLC

VARIABLES
    design,           \* the design graph: modules and (virtual) nets
    pvars,            \* placement: the solver's model, module -> Position value
    gen,              \* the dxdy generator object held by a neighborhood(dist) partial
    applied,          \* the placement constraint function applied last, and its value
    fabric,           \* the fabric: its size and its 16-bit layer
    p_state,          \* PlacementState: module -> (x, y)
    graph,            \* the shared monosat graph: port -> node, and edges with their track
    asserted,         \* the routing constraints handed to the solver
    enabled,          \* the solver's model: the set of enabled edges
    rpc,              \* position of the routing engine
    net_i,            \* route_model_reader: index of the net being read
    edge_i,           \* route_model_reader: index of the path edge being read
    path,             \* route_model_reader: l, the node path of the current net
    invariant_check,  \* route_model_reader: the dict port -> driving module
    r_state,          \* RoutingState: net -> debug path and recorded trackindex records
    dpc,              \* position of the driver script
    dargs,            \* the driver's command line switches
    dlog,             \* the phases the driver has run, with their results
    exit_code,        \* exit status of the driver (-1 while running)
    pfab,             \* place_design: the fabric's size and per-resource locations
    posvars,          \* place_design: vars, the modules that have a Position variable
    attempt,          \* place_design: the constraint set applied last and its outcome
    xml,              \* parse_xml: the tiles of the fabric file
    params,           \* parse_xml: the params dict
    heap,             \* the Port, Track, set and list objects, by identity
    bpc               \* position of the fabric builder

placeVars  == <<pvars, gen, applied>>
routeVars  == <<fabric, p_state, graph, asserted, enabled, rpc, net_i, edge_i, path,
                invariant_check, r_state>>
driverVars == <<dpc, dargs, dlog, exit_code>>
attemptVars == <<pfab, posvars, attempt>>
buildVars  == <<xml, params, heap, bpc>>
vars       == <<design, placeVars, routeVars, driverVars, attemptVars, buildVars>>

---------------------------------------------------------------------------
(* Bounds of the model *)

NumMods   == 2      \* modules of a design
MaxNets   == 2      \* virtual nets of a design
Cols      == 2      \* fabric columns seen by the placer
Rows      == 2      \* fabric rows seen by the placer
NumColors == 2      \* values of a register's color field
MaxRadius == 2      \* largest dist given to neighborhood(dist)
MaxDistFactor == 2  \* largest dist_factor given to dist_limit

Abs(n) == IF n < 0 THEN -n ELSE n

\* And / Or of smt_switch applied to a list of constraint values
And(cs) == \A i \in 1..Len(cs) : cs[i]
Or(cs)  == \E i \in 1..Len(cs) : cs[i]

---------------------------------------------------------------------------
(* Designs *)

Mods == 1..NumMods

Module(r, f) == [resource |-> r, type_ |-> r, fused |-> f]

Net(s, sp, d, dp, w) == [src |-> s, src_port |-> sp, dst |-> d, dst_port |-> dp, width |-> w]

\* design.modules_with_attr_val(attr, val)
modules_with_fused(d, val) == {m \in DOMAIN d.modules : d.modules[m].fused = val}
modules_with_type(d, val)  == {m \in DOMAIN d.modules : d.modules[m].type_ = val}

\* sequences over S of length at most n
SeqUpTo(S, n) == UNION {[1..k -> S] : k \in 0..n}

\* The module tables of the designs the placer is given: IO modules are never fused.
PlaceModuleTables ==
    {mt \in [Mods -> {Module(r, f) : r \in {"PE", "Reg", "IO"}, f \in BOOLEAN}] :
        \A m \in Mods : mt[m].resource = "IO" => ~mt[m].fused}

\* Virtual nets join non-fused modules.
PlaceNets(mt) ==
    {Net(s, "out", d, "a", 16) : s \in {m \in Mods : ~mt[m].fused},
                                 d \in {m \in Mods : ~mt[m].fused}} \
    {Net(m, "out", m, "a", 16) : m \in Mods}

PlaceDesigns ==
    UNION {{[modules |-> mt, nets |-> ns] : ns \in SeqUpTo(PlaceNets(mt), MaxNets)} :
              mt \in PlaceModuleTables}

---------------------------------------------------------------------------
(* Positions (the smt Position classes) *)

PosValues(r) ==
    [x : 0..(Cols - 1), y : 0..(Rows - 1),
     c : IF r = "Reg" THEN 0..(NumColors - 1) ELSE {0}]

\* every value the solver may give the position variables of the design
Models(d) ==
    {v \in [modules_with_fused(d, FALSE) -> PosValues("Reg")] :
        \A m \in DOMAIN v : v[m] \in PosValues(d.modules[m].resource)}

flat(v) == <<v.x, v.y>>

delta_x_fun(v, o, k) == Abs(v.x - o.x) = k
delta_y_fun(v, o, k) == Abs(v.y - o.y) = k

\* Fabric.io_locations
io_locations(rows, cols) ==
    {<<0, y>> : y \in 0..(rows - 1)} \cup {<<x, 0>> : x \in 0..(cols - 1)}

---------------------------------------------------------------------------
(* Placement constraint generators: the value of the returned constraint   *)
(* under the model v of the position variables                             *)

distinct_reg_only(d, v) ==
    \A m1 \in modules_with_fused(d, FALSE) : \A m2 \in modules_with_fused(d, FALSE) :
        (m1 # m2 /\ d.modules[m1].resource = d.modules[m2].resource
                 /\ d.modules[m1].resource = "Reg") =>
            (flat(v[m1]) # flat(v[m2]) \/ v[m1].c # v[m2].c)

distinct_non_reg(d, v) ==
    \A m1 \in modules_with_fused(d, FALSE) : \A m2 \in modules_with_fused(d, FALSE) :
        (m1 # m2 /\ d.modules[m1].resource = d.modules[m2].resource
                 /\ d.modules[m1].resource # "Reg") =>
            flat(v[m1]) # flat(v[m2])

distinct(d, v) ==
    \A m1 \in modules_with_fused(d, FALSE) : \A m2 \in modules_with_fused(d, FALSE) :
        (m1 # m2 /\ d.modules[m1].resource = d.modules[m2].resource) =>
            LET c == flat(v[m1]) # flat(v[m2])
            IN  IF d.modules[m1].resource = "Reg"
                THEN c \/ v[m1].c # v[m2].c
                ELSE c

register_colors_src_twice(d, v) ==
    And([k \in 1..Len(d.nets) |->
            (d.modules[d.nets[k].src].resource = "Reg" /\
             d.modules[d.nets[k].dst].resource = "Reg")
                => v[d.nets[k].src].c = v[d.nets[k].src].c])

register_colors(d, v) ==
    And([k \in 1..Len(d.nets) |->
            (d.modules[d.nets[k].src].resource = "Reg" /\
             d.modules[d.nets[k].dst].resource = "Reg")
                => v[d.nets[k].src].c = v[d.nets[k].dst].c])

\* What the loop `for x, y in dxdy` yields for the k-th net of one call of
\* _neighborhood: a tuple is iterated afresh for every net, a generator yields its
\* remaining items once and nothing afterwards.
IterItems(dxdy, k) ==
    IF dxdy.kind = "tuple" \/ k = 1 THEN dxdy.items ELSE <<>>

\* the dxdy object after one call of _neighborhood over n nets
AfterCall(dxdy, n) ==
    IF dxdy.kind = "generator" /\ n > 0 THEN [dxdy EXCEPT !.items = <<>>] ELSE dxdy

_neighborhood(dxdy, d, v) ==
    And([k \in 1..Len(d.nets) |->
            LET src   == d.nets[k].src
                dst   == d.nets[k].dst
                items == IterItems(dxdy, k)
            IN  Or([i \in 1..Len(items) |->
                       delta_x_fun(v[src], v[dst], items[i][1]) /\
                       delta_y_fun(v[src], v[dst], items[i][2])])])

nearest_neighbor_corner(d, v) ==
    _neighborhood([kind |-> "tuple", items |-> <<<<1, 1>>, <<0, 1>>, <<1, 0>>>>], d, v)

nearest_neighbor_diag(d, v) ==
    _neighborhood([kind |-> "tuple", items |-> <<<<0, 1>>, <<1, 0>>, <<1, 1>>>>], d, v)

nearest_neighbor(d, v) ==
    _neighborhood([kind |-> "tuple", items |-> <<<<0, 1>>, <<1, 0>>>>], d, v)

\* itertools.product(range(dist+1), repeat=2), in its order
Product(dist) ==
    [i \in 1..((dist + 1) * (dist + 1)) |->
        <<(i - 1) \div (dist + 1), (i - 1) % (dist + 1)>>]

\* neighborhood(dist): the generator expression bound into the partial
neighborhood(dist) ==
    [kind  |-> "generator",
     dist  |-> dist,
     items |-> SelectSeq(Product(dist),
                         LAMBDA p : p[1] + p[2] <= dist /\ p[1] + p[2] > 0)]

pin_IO_any(d, v) ==
    LET ios == modules_with_type(d, "IO")
    IN  ios = {} \/ \E m \in ios : v[m].x = 0 \/ v[m].y = 0

pin_IO(d, v) ==
    \A m \in modules_with_type(d, "IO") : v[m].x = 0 \/ v[m].y = 0

---------------------------------------------------------------------------
(* PlaceSpec: a design, a candidate model, and the constraint functions    *)
(* applied to them                                                         *)

NoGen == [kind |-> "none", dist |-> 0, items |-> <<>>]

Result(fn, sat, dist, n) == [fn |-> fn, sat |-> sat, dist |-> dist, n |-> n]

RouteIdle ==
    /\ fabric = <<>>
    /\ p_state = <<>>
    /\ graph = <<>>
    /\ asserted = <<>>
    /\ enabled = {}
    /\ rpc = "idle"
    /\ net_i = 0
    /\ edge_i = 0
    /\ path = <<>>
    /\ invariant_check = <<>>
    /\ r_state = <<>>

DriverIdle ==
    /\ dpc = "idle"
    /\ dargs = <<>>
    /\ dlog = <<>>
    /\ exit_code = -1

AttemptIdle ==
    /\ pfab = <<>>
    /\ posvars = {}
    /\ attempt = <<>>

BuildIdle ==
    /\ xml = <<>>
    /\ params = <<>>
    /\ heap = <<>>
    /\ bpc = "idle"

PlaceIdle ==
    /\ pvars = <<>>
    /\ gen = NoGen
    /\ applied = Result("none", FALSE, 0, 0)

PlaceInit ==
    /\ design \in PlaceDesigns
    /\ pvars \in Models(design)
    /\ gen = NoGen
    /\ applied = Result("none", FALSE, 0, 0)
    /\ RouteIdle
    /\ DriverIdle
    /\ AttemptIdle
    /\ BuildIdle

Apply_distinct ==
    /\ applied' = Result("distinct", distinct(design, pvars), 0, 0)
    /\ UNCHANGED <<design, attemptVars, buildVars, pvars, gen, routeVars, driverVars>>

Apply_register_colors ==
    /\ applied' = Result("register_colors", register_colors(design, pvars), 0, 0)
    /\ UNCHANGED <<design, attemptVars, buildVars, pvars, gen, routeVars, driverVars>>

Apply_nearest_neighbor ==
    /\ applied' = Result("nearest_neighbor", nearest_neighbor(design, pvars), 0, 0)
    /\ UNCHANGED <<design, attemptVars, buildVars, pvars, gen, routeVars, driverVars>>

Apply_pin_IO ==
    /\ applied' = Result("pin_IO", pin_IO(design, pvars), 0, 0)
    /\ UNCHANGED <<design, attemptVars, buildVars, pvars, gen, routeVars, driverVars>>

\* neighborhood(dist) is called once and its result kept as a constraint function
Call_neighborhood ==
    /\ gen.kind = "none"
    /\ \E dist \in 1..MaxRadius : gen' = neighborhood(dist)
    /\ UNCHANGED <<design, attemptVars, buildVars, pvars, applied, routeVars, driverVars>>

\* the kept constraint function is applied (a first or a later time)
Apply_neighborhood ==
    /\ gen.kind = "generator"
    /\ applied' = Result("neighborhood", _neighborhood(gen, design, pvars), gen.dist,
                         IF applied.fn = "neighborhood" THEN 2 ELSE 1)
    /\ gen' = AfterCall(gen, Len(design.nets))
    /\ UNCHANGED <<design, attemptVars, buildVars, pvars, routeVars, driverVars>>

PlaceNext ==
    \/ Apply_distinct
    \/ Apply_register_colors
    \/ Apply_nearest_neighbor
    \/ Apply_pin_IO
    \/ Call_neighborhood
    \/ Apply_neighborhood

PlaceSpec == PlaceInit /\ [][PlaceNext]_vars


---------------------------------------------------------------------------
(* The fabric: Fabric, FabricLayer, Port and Track of fabric/fabric.py     *)

Layer == 16

\* Port(x, y, resource, track, direction); every IDObject draws its id from one counter
Port(id, x, y, resource, track, direction) ==
    [cls |-> "Port", id |-> id, x |-> x, y |-> y, resource |-> resource,
     track |-> track, dir |-> direction]

\* the id of the port with the given coordinates among the ports ps
PortAt(ps, x, y, resource, track) ==
    ps[CHOOSE i \in 1..Len(ps) :
          /\ ps[i].x = x /\ ps[i].y = y
          /\ ps[i].resource = resource /\ ps[i].track = track].id

\* Track(src, dst, width); src and dst name ports by id
Track(id, src, dst) ==
    [cls |-> "Track", id |-> id, src |-> src, dst |-> dst, width |-> Layer]

\* FabricLayer.sources and FabricLayer.sinks: index tuple -> port
PEPorts(ps, direction) ==
    {i \in 1..Len(ps) : ps[i].resource = "PE" /\ ps[i].dir = direction}

PortDict(ps, direction) ==
    [k \in {<<ps[i].x, ps[i].y, ps[i].track>> : i \in PEPorts(ps, direction)}
        |-> PortAt(ps, k[1], k[2], "PE", k[3])]

\* the Fabric object with its one FabricLayer, as parse_xml returns it
Fabric(width, height, ps, ts) ==
    [width |-> width, height |-> height, ports |-> ps, tracks |-> ts,
     sources |-> PortDict(ps, "o"), sinks |-> PortDict(ps, "i")]

PortById(fab, id) == fab.ports[CHOOSE i \in 1..Len(fab.ports) : fab.ports[i].id = id]

\* IDObject.__eq__: same class and same id
IDEq(a, b) == a.cls = b.cls /\ a.id = b.id

\* `key in dict` for a dict keyed by IDObjects
InDict(key, dct) == \E k \in DOMAIN dct : IDEq(k, key)

(***************************************************************************)
(* The 16-bit layer of a 3 x 2 fabric with one track per side.  Tiles      *)
(* (0,0) and (2,0) have connection boxes (PE inputs a and b); the switch   *)
(* boxes hold the muxes listed in RingTracks.  Output ports of a tile are  *)
(* the input ports of its neighbour, so only input ports appear.           *)
(*                                                                         *)
(*        (0,0) --E--> NW (1,0) NE <--W-- (2,0)                            *)
(*          ^              |S                ^                             *)
(*          AS             v                 BS                            *)
(*        (0,1) <--W-- TN (1,1) --E-->     (2,1)                           *)
(*               CE                   DW                                   *)
(***************************************************************************)

RingPorts ==
    << Port(0,  0, 0, "PE", "out", "o"),
       Port(1,  0, 0, "PE", "a",   "i"),
       Port(2,  0, 0, "PE", "b",   "i"),
       Port(3,  2, 0, "PE", "out", "o"),
       Port(4,  2, 0, "PE", "a",   "i"),
       Port(5,  2, 0, "PE", "b",   "i"),
       Port(6,  1, 0, "PE", "out", "o"),
       Port(7,  1, 0, "W",  "0",   "i"),
       Port(8,  1, 0, "E",  "0",   "i"),
       Port(9,  1, 1, "N",  "0",   "i"),
       Port(10, 0, 1, "E",  "0",   "i"),
       Port(11, 2, 1, "W",  "0",   "i"),
       Port(12, 0, 0, "S",  "0",   "i"),
       Port(13, 2, 0, "S",  "0",   "i") >>

RingTracks ==
    << Track(14, PortAt(RingPorts, 0, 0, "PE", "out"), PortAt(RingPorts, 1, 0, "W", "0")),  \* sb (0,0): pe_out -> out E
       Track(15, PortAt(RingPorts, 2, 0, "PE", "out"), PortAt(RingPorts, 1, 0, "E", "0")),  \* sb (2,0): pe_out -> out W
       Track(16, PortAt(RingPorts, 1, 0, "PE", "out"), PortAt(RingPorts, 1, 1, "N", "0")),  \* sb (1,0): pe_out -> out S
       Track(17, PortAt(RingPorts, 1, 0, "W", "0"),    PortAt(RingPorts, 1, 1, "N", "0")),  \* sb (1,0): in W -> out S
       Track(18, PortAt(RingPorts, 1, 0, "E", "0"),    PortAt(RingPorts, 1, 1, "N", "0")),  \* sb (1,0): in E -> out S
       Track(19, PortAt(RingPorts, 1, 1, "N", "0"),    PortAt(RingPorts, 0, 1, "E", "0")),  \* sb (1,1): in N -> out W
       Track(20, PortAt(RingPorts, 1, 1, "N", "0"),    PortAt(RingPorts, 2, 1, "W", "0")),  \* sb (1,1): in N -> out E
       Track(21, PortAt(RingPorts, 0, 1, "E", "0"),    PortAt(RingPorts, 0, 0, "S", "0")),  \* sb (0,1): in E -> out N
       Track(22, PortAt(RingPorts, 2, 1, "W", "0"),    PortAt(RingPorts, 2, 0, "S", "0")),  \* sb (2,1): in W -> out N
       Track(23, PortAt(RingPorts, 0, 0, "S", "0"),    PortAt(RingPorts, 0, 0, "PE", "a")), \* cb (0,0): in S -> a
       Track(24, PortAt(RingPorts, 0, 0, "S", "0"),    PortAt(RingPorts, 0, 0, "PE", "b")), \* cb (0,0): in S -> b
       Track(25, PortAt(RingPorts, 2, 0, "S", "0"),    PortAt(RingPorts, 2, 0, "PE", "a")), \* cb (2,0): in S -> a
       Track(26, PortAt(RingPorts, 2, 0, "S", "0"),    PortAt(RingPorts, 2, 0, "PE", "b")) >> \* cb (2,0): in S -> b

RingFabric == Fabric(3, 2, RingPorts, RingTracks)

(***************************************************************************)
(* The 16-bit layer of a 2 x 2 fabric with one track per side: every tile  *)
(* has a PE, its switch box drives the PE output to each neighbour, its    *)
(* connection box feeds input a from the vertical and input b from the     *)
(* horizontal neighbour.                                                   *)
(***************************************************************************)

GridPorts ==
    << Port(0, 0, 0, "PE", "out", "o"),
       Port(1, 0, 0, "PE", "a", "i"),
       Port(2, 0, 0, "PE", "b", "i"),
       Port(3, 0, 1, "PE", "out", "o"),
       Port(4, 0, 1, "PE", "a", "i"),
       Port(5, 0, 1, "PE", "b", "i"),
       Port(6, 1, 0, "PE", "out", "o"),
       Port(7, 1, 0, "PE", "a", "i"),
       Port(8, 1, 0, "PE", "b", "i"),
       Port(9, 1, 1, "PE", "out", "o"),
       Port(10, 1, 1, "PE", "a", "i"),
       Port(11, 1, 1, "PE", "b", "i"),
       Port(12, 0, 0, "E", "0", "i"),
       Port(13, 0, 0, "S", "0", "i"),
       Port(14, 0, 1, "E", "0", "i"),
       Port(15, 0, 1, "N", "0", "i"),
       Port(16, 1, 0, "W", "0", "i"),
       Port(17, 1, 0, "S", "0", "i"),
       Port(18, 1, 1, "W", "0", "i"),
       Port(19, 1, 1, "N", "0", "i") >>

GridTracks ==
    << Track(20, PortAt(GridPorts, 0, 0, "PE", "out"), PortAt(GridPorts, 1, 0, "W", "0")),   \* sb (0,0): pe_out -> out E
       Track(21, PortAt(GridPorts, 0, 0, "PE", "out"), PortAt(GridPorts, 0, 1, "N", "0")),   \* sb (0,0): pe_out -> out S
       Track(22, PortAt(GridPorts, 0, 1, "PE", "out"), PortAt(GridPorts, 1, 1, "W", "0")),   \* sb (0,1): pe_out -> out E
       Track(23, PortAt(GridPorts, 0, 1, "PE", "out"), PortAt(GridPorts, 0, 0, "S", "0")),   \* sb (0,1): pe_out -> out N
       Track(24, PortAt(GridPorts, 1, 0, "PE", "out"), PortAt(GridPorts, 0, 0, "E", "0")),   \* sb (1,0): pe_out -> out W
       Track(25, PortAt(GridPorts, 1, 0, "PE", "out"), PortAt(GridPorts, 1, 1, "N", "0")),   \* sb (1,0): pe_out -> out S
       Track(26, PortAt(GridPorts, 1, 1, "PE", "out"), PortAt(GridPorts, 0, 1, "E", "0")),   \* sb (1,1): pe_out -> out W
       Track(27, PortAt(GridPorts, 1, 1, "PE", "out"), PortAt(GridPorts, 1, 0, "S", "0")),   \* sb (1,1): pe_out -> out N
       Track(28, PortAt(GridPorts, 0, 0, "E", "0"), PortAt(GridPorts, 0, 0, "PE", "b")),   \* cb (0,0): in E -> b
       Track(29, PortAt(GridPorts, 0, 0, "S", "0"), PortAt(GridPorts, 0, 0, "PE", "a")),   \* cb (0,0): in S -> a
       Track(30, PortAt(GridPorts, 0, 1, "E", "0"), PortAt(GridPorts, 0, 1, "PE", "b")),   \* cb (0,1): in E -> b
       Track(31, PortAt(GridPorts, 0, 1, "N", "0"), PortAt(GridPorts, 0, 1, "PE", "a")),   \* cb (0,1): in N -> a
       Track(32, PortAt(GridPorts, 1, 0, "W", "0"), PortAt(GridPorts, 1, 0, "PE", "b")),   \* cb (1,0): in W -> b
       Track(33, PortAt(GridPorts, 1, 0, "S", "0"), PortAt(GridPorts, 1, 0, "PE", "a")),   \* cb (1,0): in S -> a
       Track(34, PortAt(GridPorts, 1, 1, "W", "0"), PortAt(GridPorts, 1, 1, "PE", "b")),   \* cb (1,1): in W -> b
       Track(35, PortAt(GridPorts, 1, 1, "N", "0"), PortAt(GridPorts, 1, 1, "PE", "a"))    \* cb (1,1): in N -> a
    >>

GridFabric == Fabric(2, 2, GridPorts, GridTracks)

---------------------------------------------------------------------------
(* Designs and placements given to the router *)

\* tiles a PE module can be routed on: PE output and both PE inputs exist
RouteLocs(fab) ==
    {l \in (0..(fab.width - 1)) \X (0..(fab.height - 1)) :
        /\ <<l[1], l[2], "out">> \in DOMAIN fab.sources
        /\ <<l[1], l[2], "a">> \in DOMAIN fab.sinks
        /\ <<l[1], l[2], "b">> \in DOMAIN fab.sinks}

RouteMods(fab) ==
    1..(IF Cardinality(RouteLocs(fab)) < NumMods THEN Cardinality(RouteLocs(fab)) ELSE NumMods)

Widths == {1, Layer}

RouteNets(fab) ==
    {Net(s, "out", d, dp, w) : s \in RouteMods(fab), d \in RouteMods(fab),
                              dp \in {"a", "b"}, w \in Widths} \
    {Net(m, "out", m, dp, w) : m \in RouteMods(fab), dp \in {"a", "b"}, w \in Widths}

\* sequences without repetition
IsInjective(f) == \A i, j \in DOMAIN f : f[i] = f[j] => i = j

RouteDesigns(fab) ==
    {[modules |-> [m \in RouteMods(fab) |-> Module("PE", FALSE)], nets |-> ns] :
        ns \in {q \in SeqUpTo(RouteNets(fab), MaxNets) : Len(q) > 0 /\ IsInjective(q)}}

RoutePlacements(fab) == {ps \in [RouteMods(fab) -> RouteLocs(fab)] : IsInjective(ps)}

\* p_state.I: the occupied locations
Occupied(ps) == {ps[m] : m \in DOMAIN ps}

---------------------------------------------------------------------------
(* build_msgraph *)

\* the (x, y) of the double loop over range(width), range(height), in its order
LoopLocs(fab) ==
    [i \in 1..(fab.width * fab.height) |->
        <<(i - 1) \div fab.height, (i - 1) % fab.height>>]

UsedLocs(fab, ps) == SelectSeq(LoopLocs(fab), LAMBDA l : l \in Occupied(ps))

\* nodes of the used PEs: a, b, out of every occupied location, in loop order
PENodes(fab, ps) ==
    LET used == UsedLocs(fab, ps)
        key(n) == LET l == used[(n \div 3) + 1]
                  IN  IF n % 3 = 0 THEN fab.sinks[<<l[1], l[2], "a">>]
                      ELSE IF n % 3 = 1 THEN fab.sinks[<<l[1], l[2], "b">>]
                      ELSE fab.sources[<<l[1], l[2], "out">>]
    IN  [p \in {key(n) : n \in 0..(3 * Len(used) - 1)} |->
            CHOOSE n \in 0..(3 * Len(used) - 1) : key(n) = p]

\* the skip test without the test of the port's side: every track out of a location
\* that no module occupies is skipped
SkipTrack_any_side(fab, t, ps) ==
    <<PortById(fab, t.src).x, PortById(fab, t.src).y>> \notin Occupied(ps)

\* a track out of a PE port on a location no module occupies gets no edge
SkipTrack(fab, t, ps) ==
    /\ PortById(fab, t.src).resource = "PE"
    /\ <<PortById(fab, t.src).x, PortById(fab, t.src).y>> \notin Occupied(ps)

RECURSIVE AddTracks(_, _, _, _, _)
AddTracks(fab, i, node, edges, ps) ==
    IF i > Len(fab.tracks) THEN [node |-> node, edges |-> edges]
    ELSE LET t  == fab.tracks[i]
             n1 == IF t.src \in DOMAIN node THEN node
                   ELSE node @@ (t.src :> Cardinality(DOMAIN node))
             n2 == IF t.dst \in DOMAIN n1 THEN n1
                   ELSE n1 @@ (t.dst :> Cardinality(DOMAIN n1))
         IN  IF SkipTrack(fab, t, ps) THEN AddTracks(fab, i + 1, node, edges, ps)
             ELSE AddTracks(fab, i + 1, n2,
                            Append(edges, [u |-> n2[t.src], v |-> n2[t.dst], track |-> i]),
                            ps)

\* the graph: vars[port] (node) and the edges, each with vars[e] (its track)
build_msgraph(fab, ps) == AddTracks(fab, 1, PENodes(fab, ps), <<>>, ps)

---------------------------------------------------------------------------
(* Routing constraint generators: the terms handed to the solver *)

Reaches(u, v)        == [op |-> "reaches", u |-> u, v |-> v, k |-> 0]
NotReaches(u, v)     == [op |-> "not_reaches", u |-> u, v |-> v, k |-> 0]
DistanceLeq(u, v, k) == [op |-> "distance_leq", u |-> u, v |-> v, k |-> k]

\* the index tuple of a module's port: the position, plus the port name for a PE
Index(d, ps, m, port) ==
    IF d.modules[m].resource = "PE" THEN Append(ps[m], port) ELSE ps[m]

PEInputs == {"a", "b"}

\* the nets that make the inputs of the modules: those of the design graph, fused
\* modules included; a design without fused modules has only its virtual nets
InputNets(d) == IF "inputs" \in DOMAIN d THEN d.inputs ELSE d.nets

\* the (possibly contracted) producers of m1's inputs
contracted_inputs(d, m1) ==
    LET ins == InputNets(d)
        inputs == {ins[k].src : k \in {j \in 1..Len(ins) : ins[j].dst = m1}}
        fusedin(s) == {j \in 1..Len(ins) : ins[j].dst = s}
    IN  {s \in inputs : ~d.modules[s].fused} \cup
        {ins[CHOOSE j \in fusedin(s) : TRUE].src :
            s \in {f \in inputs : d.modules[f].fused /\ fusedin(f) # {}}}

excl_constraints(fab, d, ps, g) ==
    LET wrong_inputs ==
            UNION {IF d.modules[d.nets[k].dst].resource = "PE"
                   THEN {NotReaches(g.node[fab.sources[Index(d, ps, d.nets[k].src, d.nets[k].src_port)]],
                                    g.node[fab.sinks[Append(ps[d.nets[k].dst], port)]]) :
                            port \in PEInputs \ {d.nets[k].dst_port}}
                   ELSE {} : k \in 1..Len(d.nets)}
        unconnected ==
            UNION {UNION {IF d.modules[m1].resource = "PE"
                          THEN {NotReaches(g.node[fab.sources[Index(d, ps, m2, "out")]],
                                           g.node[fab.sinks[Append(ps[m1], port)]]) :
                                   port \in PEInputs}
                          ELSE {NotReaches(g.node[fab.sources[Index(d, ps, m2, "out")]],
                                           g.node[fab.sinks[ps[m1]]])} :
                          m2 \in {m \in modules_with_fused(d, FALSE) :
                                     m # m1 /\ m \notin contracted_inputs(d, m1)}} :
                   m1 \in modules_with_fused(d, FALSE)}
    IN  wrong_inputs \cup unconnected

reachability(fab, d, ps, g) ==
    [k \in 1..Len(d.nets) |->
        Reaches(g.node[fab.sources[Index(d, ps, d.nets[k].src, d.nets[k].src_port)]],
                g.node[fab.sinks[Index(d, ps, d.nets[k].dst, d.nets[k].dst_port)]])]

dist_constraints_factor2(dist_factor, fab, d, ps, g) ==
    [k \in 1..Len(d.nets) |->
        LET src_pos == ps[d.nets[k].src]
            dst_pos == ps[d.nets[k].dst]
            manhattan_dist == Abs(src_pos[1] - dst_pos[1]) + Abs(src_pos[2] - dst_pos[2])
        IN  DistanceLeq(g.node[fab.sources[Index(d, ps, d.nets[k].src, d.nets[k].src_port)]],
                        g.node[fab.sinks[Index(d, ps, d.nets[k].dst, d.nets[k].dst_port)]],
                        2 * dist_factor * manhattan_dist + 1)]

\* the constraint function dist_limit(dist_factor) returns
dist_constraints(dist_factor, fab, d, ps, g) ==
    [k \in 1..Len(d.nets) |->
        LET src_pos == ps[d.nets[k].src]
            dst_pos == ps[d.nets[k].dst]
            manhattan_dist == Abs(src_pos[1] - dst_pos[1]) + Abs(src_pos[2] - dst_pos[2])
            heuristic_dist == 3 * dist_factor * manhattan_dist + 1
        IN  DistanceLeq(g.node[fab.sources[Index(d, ps, d.nets[k].src, d.nets[k].src_port)]],
                        g.node[fab.sinks[Index(d, ps, d.nets[k].dst, d.nets[k].dst_port)]],
                        heuristic_dist)]

---------------------------------------------------------------------------
(* The solver: monosat's reachability theory over the shared graph *)

Range(f) == {f[i] : i \in DOMAIN f}

\* nodes reached from S through enabled edges in at most k steps
RECURSIVE WithinSet(_, _, _, _)
WithinSet(g, en, S, k) ==
    LET N == S \cup {g.edges[e].v : e \in {f \in en : g.edges[f].u \in S}}
    IN  IF k = 0 \/ N = S THEN S ELSE WithinSet(g, en, N, k - 1)

ReachSet(g, en, S) == WithinSet(g, en, S, Len(g.edges))

Holds(c, g, en) ==
    CASE c.op = "reaches"      -> c.v \in ReachSet(g, en, {c.u})
      [] c.op = "not_reaches"  -> c.v \notin ReachSet(g, en, {c.u})
      [] c.op = "distance_leq" -> c.v \in WithinSet(g, en, {c.u}, c.k)

\* the model en of the edge variables satisfies every asserted constraint
Satisfies(en, g, as) ==
    /\ \A k \in DOMAIN as.reach : Holds(as.reach[k], g, en)
    /\ \A k \in DOMAIN as.dist : Holds(as.dist[k], g, en)
    /\ \A c \in as.excl : Holds(c, g, en)

\* every model of the edge variables the solver may return
SatModels(g, as) == {en \in SUBSET (1..Len(g.edges)) : Satisfies(en, g, as)}

\* graph.getPath(reaches): a simple path of enabled edges from u to v
RECURSIVE PathsFrom(_, _, _, _)
PathsFrom(g, en, p, v) ==
    IF p[Len(p)] = v THEN {p}
    ELSE UNION {PathsFrom(g, en, Append(p, g.edges[e].v), v) :
                   e \in {f \in en : g.edges[f].u = p[Len(p)] /\ g.edges[f].v \notin Range(p)}}

getPath(g, en, u, v) == PathsFrom(g, en, <<u>>, v)

\* graph.getEdge(n1, n2)
getEdge(g, n1, n2) == {e \in 1..Len(g.edges) : g.edges[e].u = n1 /\ g.edges[e].v = n2}

---------------------------------------------------------------------------
(* route_model_reader *)

Ref(obj) == [cls |-> obj.cls, id |-> obj.id]

\* dict[key] and dict[key] = val for a dict keyed by IDObjects
Lookup(dct, key) == dct[CHOOSE k \in DOMAIN dct : IDEq(k, key)]
Put(dct, key, val) == [k \in DOMAIN dct \cup {key} |-> IF k = key THEN val ELSE dct[k]]

\* Port.index: the tuple that names a port in the fabric
PortIndex(p) == <<p.x, p.y, p.resource, p.track, p.dir>>

trackindex_swapped(fab, track) ==
    [snk |-> PortIndex(PortById(fab, track.src)),
     src |-> PortIndex(PortById(fab, track.dst)),
     bw  |-> Layer]

\* trackindex(snk=dst.index, src=track.src.index, bw=layer)
trackindex(fab, track) ==
    [snk |-> PortIndex(PortById(fab, track.dst)),
     src |-> PortIndex(PortById(fab, track.src)),
     bw  |-> Layer]

\* the condition under which the reader's assert statement fails
DriverClash(fab, track, net, check) ==
    /\ InDict(Ref(track), check)
    /\ net.src # Lookup(check, Ref(PortById(fab, track.dst)))

---------------------------------------------------------------------------
(* Spec: the routing engine *)

\* the dist_factor the driver gives dist_limit
DistFactor == 1

Solved == rpc \in {"read", "edges", "done", "assert_failed"}

RouteStart ==
    /\ design \in RouteDesigns(fabric)
    /\ p_state \in RoutePlacements(fabric)
    /\ graph = <<>>
    /\ asserted = <<>>
    /\ enabled = {}
    /\ rpc = "start"
    /\ net_i = 0
    /\ edge_i = 0
    /\ path = <<>>
    /\ invariant_check = <<>>
    /\ r_state = <<>>
    /\ PlaceIdle
    /\ DriverIdle
    /\ AttemptIdle
    /\ BuildIdle

Init ==
    /\ fabric = RingFabric
    /\ RouteStart

BuildGraph ==
    /\ rpc = "start"
    /\ graph' = build_msgraph(fabric, p_state)
    /\ rpc' = "graph"
    /\ UNCHANGED <<design, attemptVars, buildVars, placeVars, driverVars, fabric, p_state, asserted, enabled, net_i,
                   edge_i, path, invariant_check, r_state>>

\* excl_constraints, reachability and dist_limit(dist_factor) are applied
ApplyRouteConstraints(dist_factor) ==
    /\ rpc = "graph"
    /\ asserted' = [excl        |-> excl_constraints(fabric, design, p_state, graph),
                    reach       |-> reachability(fabric, design, p_state, graph),
                    dist        |-> dist_constraints(dist_factor, fabric, design, p_state, graph),
                    dist_factor |-> dist_factor]
    /\ rpc' = "asserted"
    /\ UNCHANGED <<design, attemptVars, buildVars, placeVars, driverVars, fabric, p_state, graph, enabled, net_i,
                   edge_i, path, invariant_check, r_state>>

AssertConstraints == ApplyRouteConstraints(DistFactor)

\* the solver is run: route_design fails when the constraints are unsatisfiable,
\* otherwise the model reader is started on the model found
Solve ==
    /\ rpc = "asserted"
    /\ LET models == SatModels(graph, asserted)
       IN  IF models = {}
           THEN /\ rpc' = "unroutable"
                /\ UNCHANGED <<enabled, net_i>>
           ELSE /\ \E en \in models : enabled' = en
                /\ rpc' = "read"
                /\ net_i' = 1
    /\ UNCHANGED <<design, attemptVars, buildVars, placeVars, driverVars, fabric, p_state, graph, asserted,
                   edge_i, path, invariant_check, r_state>>

\* a net of another width is passed over
SkipNet ==
    /\ rpc = "read"
    /\ net_i <= Len(design.nets)
    /\ design.nets[net_i].width # Layer
    /\ net_i' = net_i + 1
    /\ UNCHANGED <<design, attemptVars, buildVars, placeVars, driverVars, fabric, p_state, graph, asserted, enabled,
                   rpc, edge_i, path, invariant_check, r_state>>

\* the path of the net is fetched from the solver and recorded for debug printing
StartNet ==
    /\ rpc = "read"
    /\ net_i <= Len(design.nets)
    /\ design.nets[net_i].width = Layer
    /\ \E l \in getPath(graph, enabled, asserted.reach[net_i].u, asserted.reach[net_i].v) :
          /\ path' = l
          /\ r_state' = (net_i :> [debug |-> l, recs |-> <<>>]) @@ r_state
    /\ edge_i' = 1
    /\ rpc' = "edges"
    /\ UNCHANGED <<design, attemptVars, buildVars, placeVars, driverVars, fabric, p_state, graph, asserted, enabled,
                   net_i, invariant_check>>

\* one turn of the loop over zip(l, l[1:])
ReadEdge ==
    /\ rpc = "edges"
    /\ edge_i < Len(path)
    /\ \E e \in getEdge(graph, path[edge_i], path[edge_i + 1]) :
          LET track == fabric.tracks[graph.edges[e].track]
              net   == design.nets[net_i]
          IN  IF DriverClash(fabric, track, net, invariant_check)
              THEN /\ rpc' = "assert_failed"
                   /\ UNCHANGED <<invariant_check, r_state, edge_i>>
              ELSE /\ invariant_check' = Put(invariant_check, Ref(PortById(fabric, track.dst)), net.src)
                   /\ r_state' = [r_state EXCEPT ![net_i].recs = Append(@, trackindex(fabric, track))]
                   /\ edge_i' = edge_i + 1
                   /\ UNCHANGED rpc
    /\ UNCHANGED <<design, attemptVars, buildVars, placeVars, driverVars, fabric, p_state, graph, asserted, enabled,
                   net_i, path>>

EndNet ==
    /\ rpc = "edges"
    /\ edge_i = Len(path)
    /\ net_i' = net_i + 1
    /\ rpc' = "read"
    /\ UNCHANGED <<design, attemptVars, buildVars, placeVars, driverVars, fabric, p_state, graph, asserted, enabled,
                   edge_i, path, invariant_check, r_state>>

ReaderDone ==
    /\ rpc = "read"
    /\ net_i > Len(design.nets)
    /\ rpc' = "done"
    /\ UNCHANGED <<design, attemptVars, buildVars, placeVars, driverVars, fabric, p_state, graph, asserted, enabled,
                   net_i, edge_i, path, invariant_check, r_state>>

Next ==
    \/ BuildGraph
    \/ AssertConstraints
    \/ Solve
    \/ SkipNet
    \/ StartNet
    \/ ReadEdge
    \/ EndNet
    \/ ReaderDone

Spec == Init /\ [][Next]_vars

---------------------------------------------------------------------------
(* EmitSpec: the routing constraint generators on either fabric, with any  *)
(* dist_factor; the solver is not run                                      *)

EmitInit ==
    /\ fabric \in {RingFabric, GridFabric}
    /\ RouteStart

EmitConstraints == \E dist_factor \in 1..MaxDistFactor : ApplyRouteConstraints(dist_factor)

EmitNext ==
    \/ BuildGraph
    \/ EmitConstraints

EmitSpec == EmitInit /\ [][EmitNext]_vars

---------------------------------------------------------------------------
(* DriverSpec: the phases of the command line driver                       *)

\* the switches of the argument parser that select the phases after routing
ArgSets ==
    [bitstream : BOOLEAN, annotate : BOOLEAN, print : BOOLEAN,
     print_place : BOOLEAN, print_route : BOOLEAN]

Phase(name, ok) == [phase |-> name, ok |-> ok]

after_strict_always_relax(ok) == "relax"

\* where the script goes after place_design(PLACE_CONSTRAINTS, ...) returned ok
after_strict(ok) == IF ok THEN "route" ELSE "relax"

DriverInit ==
    /\ design = <<>>
    /\ PlaceIdle
    /\ RouteIdle
    /\ AttemptIdle
    /\ BuildIdle
    /\ dpc = "place"
    /\ dargs \in ArgSets
    /\ dlog = <<>>
    /\ exit_code = -1

\* p.place_design(PLACE_CONSTRAINTS, pnr.place_model_reader)
PlaceStrict ==
    /\ dpc = "place"
    /\ \E ok \in BOOLEAN :
          /\ dlog' = Append(dlog, Phase("place_strict", ok))
          /\ dpc' = after_strict(ok)
    /\ UNCHANGED <<design, attemptVars, buildVars, placeVars, routeVars, dargs, exit_code>>

\* p.place_design(PLACE_RELAXED, pnr.place_model_reader); sys.exit(1) when it fails
PlaceRelaxed ==
    /\ dpc = "relax"
    /\ \E ok \in BOOLEAN :
          /\ dlog' = Append(dlog, Phase("place_relaxed", ok))
          /\ dpc' = IF ok THEN "route" ELSE "exited"
          /\ exit_code' = IF ok THEN exit_code ELSE 1
    /\ UNCHANGED <<design, attemptVars, buildVars, placeVars, routeVars, dargs>>

\* p.route_design(ROUTE_CONSTRAINTS, pnr.route_model_reader); sys.exit(1) when it fails
RouteDesign ==
    /\ dpc = "route"
    /\ \E ok \in BOOLEAN :
          /\ dlog' = Append(dlog, Phase("route", ok))
          /\ dpc' = IF ok THEN "bitstream" ELSE "exited"
          /\ exit_code' = IF ok THEN exit_code ELSE 1
    /\ UNCHANGED <<design, attemptVars, buildVars, placeVars, routeVars, dargs>>

\* if args.bitstream: write_bitstream(fabric_file, bit_file, False)
WriteBitstream ==
    /\ dpc = "bitstream"
    /\ dlog' = IF dargs.bitstream THEN Append(dlog, Phase("write_bitstream", TRUE)) ELSE dlog
    /\ dpc' = "annotate"
    /\ UNCHANGED <<design, attemptVars, buildVars, placeVars, routeVars, dargs, exit_code>>

\* if args.annotate: write_bitstream(fabric_file, bit_file, True)
WriteAnnotated ==
    /\ dpc = "annotate"
    /\ dlog' = IF dargs.annotate THEN Append(dlog, Phase("write_annotated", TRUE)) ELSE dlog
    /\ dpc' = "print_place"
    /\ UNCHANGED <<design, attemptVars, buildVars, placeVars, routeVars, dargs, exit_code>>

\* if args.print or args.print_place: write_debug
PrintPlace ==
    /\ dpc = "print_place"
    /\ dlog' = IF dargs.print \/ dargs.print_place
               THEN Append(dlog, Phase("print_place", TRUE)) ELSE dlog
    /\ dpc' = "print_route"
    /\ UNCHANGED <<design, attemptVars, buildVars, placeVars, routeVars, dargs, exit_code>>

\* if args.print or args.print_route: write_route_debug; then the script ends
PrintRoute ==
    /\ dpc = "print_route"
    /\ dlog' = IF dargs.print \/ dargs.print_route
               THEN Append(dlog, Phase("print_route", TRUE)) ELSE dlog
    /\ dpc' = "exited"
    /\ exit_code' = 0
    /\ UNCHANGED <<design, attemptVars, buildVars, placeVars, routeVars, dargs>>

DriverNext ==
    \/ PlaceStrict
    \/ PlaceRelaxed
    \/ RouteDesign
    \/ WriteBitstream
    \/ WriteAnnotated
    \/ PrintPlace
    \/ PrintRoute

DriverSpec == DriverInit /\ [][DriverNext]_vars

---------------------------------------------------------------------------
(* Properties of the routing engine *)

\* the solver's enabled paths of net k
NetPaths(k) == getPath(graph, enabled, asserted.reach[k].u, asserted.reach[k].v)

\* the port that build_msgraph gave node n
NodePort(n) == PortById(fabric, CHOOSE p \in DOMAIN graph.node : graph.node[p] = n)

\* C1: in every satisfying assignment of the routing graph, the enabled paths of two
\* nets with different source modules have no port (node) in common.
C1_NoSharedPort ==
    Solved =>
        \A k1, k2 \in 1..Len(design.nets) :
            design.nets[k1].src # design.nets[k2].src =>
                \A p1 \in NetPaths(k1) : \A p2 \in NetPaths(k2) :
                    Range(p1) \cap Range(p2) = {}

\* the ports recorded as a sink for net k, and the modules recorded as driving port p
RecordedSinks(k) == {r_state[k].recs[i].snk : i \in 1..Len(r_state[k].recs)}
DriversOf(p) == {design.nets[k].src : k \in {j \in DOMAIN r_state : p \in RecordedSinks(j)}}

\* C2: when the destination port of the track about to be recorded is already
\* recorded for a net with another source module, the reader's step ends in the
\* assertion failure and records nothing.
C2_SecondDriverAsserts ==
    [][(/\ rpc = "edges"
        /\ edge_i < Len(path)
        /\ \E m \in DriversOf(PortIndex(NodePort(path[edge_i + 1]))) :
              m # design.nets[net_i].src)
       => (rpc' = "assert_failed" /\ r_state' = r_state)]_vars

\* C3: once a 16-bit net is read, its records are the tracks of the consecutive edges
\* of the solver's path in path order: one record per edge, from the port of the edge's
\* first node to the port of its second; the first record starts at sources[src_index],
\* the last ends at sinks[dst_index], and each record's sink is the next one's source.
C3_RecordsFollowPath ==
    \A k \in 1..Len(design.nets) :
        (rpc \in {"read", "edges", "done"} /\ k < net_i /\ design.nets[k].width = Layer) =>
            /\ k \in DOMAIN r_state
            /\ LET recs == r_state[k].recs
                   l    == r_state[k].debug
                   n    == design.nets[k]
                   src  == fabric.sources[Index(design, p_state, n.src, n.src_port)]
                   dst  == fabric.sinks[Index(design, p_state, n.dst, n.dst_port)]
               IN  /\ l \in NetPaths(k)
                   /\ Len(recs) = Len(l) - 1
                   /\ \A i \in 1..Len(recs) :
                         /\ getEdge(graph, l[i], l[i + 1]) \subseteq enabled
                         /\ recs[i] = [snk |-> PortIndex(NodePort(l[i + 1])),
                                       src |-> PortIndex(NodePort(l[i])),
                                       bw  |-> Layer]
                   /\ recs[1].src = PortIndex(PortById(fabric, src))
                   /\ recs[Len(recs)].snk = PortIndex(PortById(fabric, dst))
                   /\ \A i \in 1..(Len(recs) - 1) : recs[i].snk = recs[i + 1].src

\* C3 witness: the reader has returned with two 16-bit nets recorded along their paths
C3_Witness ==
    /\ rpc = "done"
    /\ Len(design.nets) = 2
    /\ \A k \in 1..2 : design.nets[k].width = Layer /\ Len(r_state[k].recs) >= 4

\* C4: for every net, dist_limit(F) asserts distance_leq between the nodes reachability
\* uses, with bound 3*F*(|x_src - x_dst| + |y_src - y_dst|) + 1 from the placed positions.
C4_DistBound ==
    rpc = "asserted" =>
        /\ Len(asserted.dist) = Len(design.nets)
        /\ \A k \in 1..Len(design.nets) :
              LET s == p_state[design.nets[k].src]
                  t == p_state[design.nets[k].dst]
              IN  /\ asserted.dist[k].op = "distance_leq"
                  /\ asserted.dist[k].u = asserted.reach[k].u
                  /\ asserted.dist[k].v = asserted.reach[k].v
                  /\ asserted.dist[k].k =
                        3 * asserted.dist_factor * (Abs(s[1] - t[1]) + Abs(s[2] - t[2])) + 1

\* C4 witness: dist_limit(2) applied to a net whose modules lie on a diagonal
C4_Witness ==
    /\ rpc = "asserted"
    /\ asserted.dist_factor = 2
    /\ \E k \in 1..Len(design.nets) :
          /\ Abs(p_state[design.nets[k].src][1] - p_state[design.nets[k].dst][1]) = 1
          /\ Abs(p_state[design.nets[k].src][2] - p_state[design.nets[k].dst][2]) = 1
          /\ asserted.dist[k].k = 13

---------------------------------------------------------------------------
(* Properties of the placement constraints *)

NonFused == modules_with_fused(design, FALSE)

\* |dx| + |dy| of the endpoints of net k under the placement
NetDist(k) ==
    Abs(pvars[design.nets[k].src].x - pvars[design.nets[k].dst].x) +
    Abs(pvars[design.nets[k].src].y - pvars[design.nets[k].dst].y)

\* C5: under a placement that satisfies distinct, two different non-fused modules of
\* one resource have different flat positions, unless both are Regs of different colors.
C5_Distinct ==
    (applied.fn = "distinct" /\ applied.sat) =>
        \A m1, m2 \in NonFused :
            (m1 # m2 /\ design.modules[m1].resource = design.modules[m2].resource) =>
                \/ flat(pvars[m1]) # flat(pvars[m2])
                \/ /\ design.modules[m1].resource = "Reg"
                   /\ pvars[m1].c # pvars[m2].c

\* C5 witness: distinct is satisfied by two Regs on one tile with different colors
C5_Witness ==
    /\ applied.fn = "distinct" /\ applied.sat
    /\ \E m1, m2 \in NonFused :
          /\ m1 # m2
          /\ design.modules[m1].resource = "Reg" /\ design.modules[m2].resource = "Reg"
          /\ flat(pvars[m1]) = flat(pvars[m2])

\* C6: under a placement that satisfies register_colors, the two registers of every
\* net from a Reg to a Reg have the same color.
C6_RegisterColors ==
    (applied.fn = "register_colors" /\ applied.sat) =>
        \A k \in 1..Len(design.nets) :
            (design.modules[design.nets[k].src].resource = "Reg" /\
             design.modules[design.nets[k].dst].resource = "Reg") =>
                pvars[design.nets[k].src].c = pvars[design.nets[k].dst].c

\* C6 witness: register_colors is satisfied on a design with a Reg-to-Reg net
C6_Witness ==
    /\ applied.fn = "register_colors" /\ applied.sat
    /\ \E k \in 1..Len(design.nets) :
          /\ design.modules[design.nets[k].src].resource = "Reg"
          /\ design.modules[design.nets[k].dst].resource = "Reg"

\* C7: under a placement that satisfies nearest_neighbor, the endpoints of every net
\* are orthogonally adjacent: (|dx|, |dy|) is (0,1) or (1,0).
C7_NearestNeighbor ==
    (applied.fn = "nearest_neighbor" /\ applied.sat) =>
        \A k \in 1..Len(design.nets) :
            <<Abs(pvars[design.nets[k].src].x - pvars[design.nets[k].dst].x),
              Abs(pvars[design.nets[k].src].y - pvars[design.nets[k].dst].y)>>
                \in {<<0, 1>>, <<1, 0>>}

\* C7 witness: nearest_neighbor is satisfied on a design with two nets
C7_Witness ==
    /\ applied.fn = "nearest_neighbor" /\ applied.sat
    /\ Len(design.nets) = 2

\* C8: the constraint of neighborhood(r) is satisfied exactly when every net has
\* 0 < |dx| + |dy| <= r, at the first and at every later application.
C8_NeighborhoodExact ==
    applied.fn = "neighborhood" =>
        (applied.sat <=> \A k \in 1..Len(design.nets) :
                             0 < NetDist(k) /\ NetDist(k) <= applied.dist)

\* C9: under a placement that satisfies pin_IO, every module of type IO has x = 0 or
\* y = 0, that is, lies on one of the fabric's io_locations.
C9_PinIO ==
    (applied.fn = "pin_IO" /\ applied.sat) =>
        \A m \in modules_with_type(design, "IO") :
            /\ pvars[m].x = 0 \/ pvars[m].y = 0
            /\ flat(pvars[m]) \in io_locations(Rows, Cols)

\* C9 witness: pin_IO is satisfied on a design with two IO modules on different edges
C9_Witness ==
    /\ applied.fn = "pin_IO" /\ applied.sat
    /\ \E m1, m2 \in modules_with_type(design, "IO") :
          pvars[m1].x = 0 /\ pvars[m1].y > 0 /\ pvars[m2].y = 0 /\ pvars[m2].x > 0

---------------------------------------------------------------------------
(* Properties of the driver *)

Ran(name) == {i \in 1..Len(dlog) : dlog[i].phase = name}

\* C10: strict placement runs first; relaxed placement runs only after strict
\* placement failed; routing runs only right after a placement that succeeded; status 0
\* needs a successful routing; a failed relaxed placement or a failed routing is the last
\* phase of the run and leaves a non-zero status.
C10_PhaseOrder ==
    /\ Len(dlog) > 0 => dlog[1].phase = "place_strict"
    /\ Ran("place_strict") \subseteq {1}
    /\ \A i \in Ran("place_relaxed") : i = 2 /\ ~dlog[1].ok
    /\ \A i \in Ran("route") :
          i > 1 /\ dlog[i - 1].phase \in {"place_strict", "place_relaxed"} /\ dlog[i - 1].ok
    /\ exit_code = 0 => \E i \in Ran("route") : dlog[i].ok
    /\ \A i \in 1..Len(dlog) :
          (dlog[i].phase \in {"place_relaxed", "route"} /\ ~dlog[i].ok) =>
              i = Len(dlog) /\ dpc = "exited" /\ exit_code > 0
    /\ \A i \in 1..Len(dlog) :
          dlog[i].phase \in {"write_bitstream", "write_annotated", "print_place", "print_route"}
              => \E j \in Ran("route") : j < i /\ dlog[j].ok
    /\ (dpc = "exited") <=> (exit_code # -1)

\* C10 witness: strict placement failed, relaxed placement succeeded, routing succeeded,
\* the bitstream was written and the run ended with status 0
C10_Witness ==
    /\ exit_code = 0
    /\ Len(dlog) >= 4
    /\ dlog[1] = Phase("place_strict", FALSE)
    /\ dlog[2] = Phase("place_relaxed", TRUE)
    /\ dlog[3] = Phase("route", TRUE)
    /\ dlog[4].phase = "write_bitstream"

---------------------------------------------------------------------------
(* AttemptSpec: place_design with the driver's constraint sets, on a fabric *)
(* of PE locations, followed by place_model_reader                          *)

\* three PE modules with a net between every pair, in either direction
TriangleDesigns ==
    {[modules |-> [m \in 1..3 |-> Module("PE", FALSE)],
      nets    |-> <<IF o[1] THEN Net(1, "out", 2, "a", 16) ELSE Net(2, "out", 1, "a", 16),
                    IF o[2] THEN Net(2, "out", 3, "a", 16) ELSE Net(3, "out", 2, "a", 16),
                    IF o[3] THEN Net(3, "out", 1, "a", 16) ELSE Net(1, "out", 3, "a", 16)>>] :
        o \in [1..3 -> BOOLEAN]}

AttemptDesigns == PlaceDesigns \cup TriangleDesigns

\* rectangular fabrics: every tile that is not a memory tile is a PE location
PlaceFabrics ==
    UNION {{[cols |-> c, rows |-> r, pe |-> pe] :
               pe \in SUBSET ((0..(c - 1)) \X (0..(r - 1)))} :
              c \in 1..Cols, r \in 1..Rows}

\* the values the solver may give the position variables on the fabric fab
AttemptModels(d, fab) ==
    {v \in [modules_with_fused(d, FALSE) ->
               [x : 0..(fab.cols - 1), y : 0..(fab.rows - 1), c : 0..(NumColors - 1)]] :
        \A m \in DOMAIN v : d.modules[m].resource # "Reg" => v[m].c = 0}

\* Position.invariants: the legality of module m's position
invariants(d, fab, v, m) ==
    CASE d.modules[m].resource = "PE" -> flat(v[m]) \in fab.pe
      [] d.modules[m].resource = "IO" -> flat(v[m]) \in io_locations(fab.rows, fab.cols)
      [] OTHER -> TRUE

\* the initializer init_positions returns: the modules whose invariants it puts into
\* its constraint, given the modules vs that already have a variable
initializer(d, vs) == modules_with_fused(d, FALSE) \ vs

place_model_reader_color_first(d, v) ==
    [m \in DOMAIN v |->
        IF d.modules[m].resource = "Reg" THEN <<v[m].c, v[m].x, v[m].y>>
        ELSE <<v[m].x, v[m].y>>]

place_model_reader_no_color(d, v) ==
    [m \in DOMAIN v |-> <<v[m].x, v[m].y>>]

place_model_reader(d, v) ==
    [m \in DOMAIN v |-> IF d.modules[m].resource = "Reg"
                        THEN <<v[m].x, v[m].y, v[m].c>>
                        ELSE <<v[m].x, v[m].y>>]

\* the models of PLACE_CONSTRAINTS (strict) or PLACE_RELAXED
PlaceModels(strict, d, fab, init) ==
    {v \in AttemptModels(d, fab) :
        /\ \A m \in init : invariants(d, fab, v, m)
        /\ distinct(d, v)
        /\ strict => nearest_neighbor(d, v)
        /\ pin_IO(d, v)}

AttemptInit ==
    /\ design \in AttemptDesigns
    /\ pfab \in PlaceFabrics
    /\ posvars = {}
    /\ attempt = [set |-> "none", init |-> {}, ok |-> FALSE, n |-> 0, same_vars |-> TRUE]
    /\ pvars = <<>>
    /\ gen = NoGen
    /\ applied = Result("none", FALSE, 0, 0)
    /\ RouteIdle
    /\ DriverIdle
    /\ BuildIdle

\* p.place_design(funcs, pnr.place_model_reader), run with the variable map vs
place_design(name, strict, vs) ==
    LET init   == initializer(design, vs)
        models == PlaceModels(strict, design, pfab, init)
    IN  /\ posvars' = vs \cup init
        /\ attempt' = [set |-> name, init |-> init, ok |-> models # {}, n |-> attempt.n + 1,
                       same_vars |-> (vs = posvars)]
        /\ IF models = {}
           THEN UNCHANGED <<pvars, p_state>>
           ELSE \E v \in models :
                   /\ pvars' = v
                   /\ p_state' = place_model_reader(design, v)
        /\ UNCHANGED <<design, pfab, gen, applied, fabric, graph, asserted, enabled, rpc, net_i,
                       edge_i, path, invariant_check, r_state, driverVars, buildVars>>

AttemptStrict ==
    /\ attempt.set = "none"
    /\ place_design("strict", TRUE, posvars)

\* the retry after a failed strict attempt: the PNR object either still holds the
\* variable map of the first attempt or has replaced it by an empty one
AttemptRelaxed ==
    /\ attempt.set = "strict"
    /\ ~attempt.ok
    /\ \E keep \in BOOLEAN : place_design("relaxed", FALSE, IF keep THEN posvars ELSE {})

AttemptNext ==
    \/ AttemptStrict
    \/ AttemptRelaxed

AttemptSpec == AttemptInit /\ [][AttemptNext]_vars

\* C11: for a triangle of three PEs the strict constraint set has no satisfying
\* placement on any fabric, and the relaxed set has one whenever the fabric has at
\* least three PE locations.
C11_Triangle ==
    design \in TriangleDesigns =>
        /\ attempt.set = "strict" => ~attempt.ok
        /\ (attempt.set = "relaxed" /\ Cardinality(pfab.pe) >= 3) => attempt.ok
        /\ (attempt.set = "relaxed" /\ attempt.init # {} /\ Cardinality(pfab.pe) < 3)
               => ~attempt.ok

\* C11 witness: the triangle failed strict placement and was placed by the relaxed set
C11_Witness ==
    /\ design \in TriangleDesigns
    /\ attempt.set = "relaxed" /\ attempt.ok /\ attempt.init = {1, 2, 3}
    /\ Cardinality({p_state[m] : m \in 1..3}) = 3

\* C19 as stated: after a successful placement no two different modules have the same
\* location tuple, whatever their resource kinds.
C19_Injective ==
    attempt.ok => IsInjective(p_state)

\* C19 amended: after a successful placement no two different modules of the same
\* resource kind have the same location tuple.
C19_InjectivePerResource ==
    attempt.ok =>
        \A m1, m2 \in DOMAIN p_state :
            (m1 # m2 /\ design.modules[m1].resource = design.modules[m2].resource)
                => p_state[m1] # p_state[m2]

\* C19 witness: a successful placement with two Regs on one tile in different colors
C19_Witness ==
    /\ attempt.ok
    /\ \E m1, m2 \in DOMAIN p_state :
          /\ m1 # m2
          /\ design.modules[m1].resource = "Reg" /\ design.modules[m2].resource = "Reg"
          /\ flat(pvars[m1]) = flat(pvars[m2])

\* C20: every application of the initializer returns the legality invariant of every
\* non-fused module of the design, on the strict attempt and on the relaxed retry.
C20_InitializerLegality ==
    attempt.n > 0 => attempt.init = modules_with_fused(design, FALSE)


---------------------------------------------------------------------------
(* ChainSpec: placement with the constraint functions distinct and          *)
(* register_colors on designs of up to three registers                      *)

ChainMods == 1..(NumMods + 1)

ChainNets ==
    {Net(s, "out", d, "a", 16) : s \in ChainMods, d \in ChainMods} \
    {Net(m, "out", m, "a", 16) : m \in ChainMods}

ChainDesigns ==
    {[modules |-> mt, nets |-> ns] :
        mt \in [ChainMods -> {Module("Reg", FALSE), Module("PE", FALSE)}],
        ns \in SeqUpTo(ChainNets, MaxNets)}

\* the models of And(distinct, register_colors)
ChainModels(d) == {v \in Models(d) : distinct(d, v) /\ register_colors(d, v)}

ChainInit ==
    /\ design \in ChainDesigns
    /\ PlaceIdle
    /\ RouteIdle
    /\ DriverIdle
    /\ AttemptIdle
    /\ BuildIdle

\* the solver is run on the two constraints and one of its models is kept
ChainPlace ==
    /\ applied.fn = "none"
    /\ LET models == ChainModels(design)
       IN  IF models = {}
           THEN /\ applied' = Result("distinct+register_colors", FALSE, 0, 0)
                /\ UNCHANGED pvars
           ELSE /\ applied' = Result("distinct+register_colors", TRUE, 0, 0)
                /\ \E v \in models : pvars' = v
    /\ UNCHANGED <<design, attemptVars, buildVars, gen, routeVars, driverVars>>

ChainNext == ChainPlace

ChainSpec == ChainInit /\ [][ChainNext]_vars

\* the Reg modules joined to a module of S by one Reg-to-Reg net, in either direction
RegStep(d, S) ==
    S \cup {m \in DOMAIN d.modules :
              \E k \in 1..Len(d.nets) :
                 /\ d.modules[d.nets[k].src].resource = "Reg"
                 /\ d.modules[d.nets[k].dst].resource = "Reg"
                 /\ \/ (d.nets[k].src \in S /\ d.nets[k].dst = m)
                    \/ (d.nets[k].dst \in S /\ d.nets[k].src = m)}

RECURSIVE RegChain(_, _)
RegChain(d, S) == IF RegStep(d, S) = S THEN S ELSE RegChain(d, RegStep(d, S))

\* C12: in a placement that satisfies distinct together with register_colors, two
\* different Reg modules joined by a chain of Reg-to-Reg nets of any length are
\* never on the same flat position (x, y).
C12_ChainNoReuse ==
    (applied.fn = "distinct+register_colors" /\ applied.sat) =>
        \A m1 \in DOMAIN pvars : \A m2 \in RegChain(design, {m1}) :
            m1 # m2 => flat(pvars[m1]) # flat(pvars[m2])

\* C12 witness: a chain of two nets through three registers is placed; its two ends
\* are joined by no net of their own and carry the same color
C12_Witness ==
    /\ applied.fn = "distinct+register_colors" /\ applied.sat
    /\ \A m \in ChainMods : design.modules[m].resource = "Reg"
    /\ Len(design.nets) = 2
    /\ design.nets[1].src = 1 /\ design.nets[1].dst = 2
    /\ design.nets[2].src = 2 /\ design.nets[2].dst = 3
    /\ RegChain(design, {1}) = ChainMods
    /\ pvars[1].c = pvars[3].c


---------------------------------------------------------------------------
(* BuildSpec: the fabric builder parse_xml, Fabric(params) and process_regs *)
(*                                                                          *)
(* Objects are kept by identity in heap: heap.port, heap.track, heap.set    *)
(* (the _inputs/_outputs sets) and heap.list (the port lists of SB and Mem) *)
(* are indexed by the object's id. A dict is a function from its keys. The  *)
(* builder functions are operators from a world w = [h |-> heap, p |->      *)
(* params] to the world they leave.                                         *)

MaxTracks == 2      \* tracks per side of a tile

\* for e in seq: acc = Body(acc, e). The value left by one iteration is computed
\* before the next iteration starts; the iterations are evaluated in blocks of
\* eight, which keeps the evaluation shallow for long lists.
For(seq, acc, Body(_, _)) ==
    LET n == Len(seq)
        blk(a0, lo, hi) ==
            LET f[i \in (lo - 1)..hi] ==
                    IF i = lo - 1 THEN a0
                    ELSE LET prev == f[i - 1]
                         IN  IF prev = prev THEN Body(prev, seq[i]) ELSE prev
            IN  f[hi]
        nb == (n + 7) \div 8
        g[b \in 0..nb] ==
            IF b = 0 THEN acc
            ELSE LET prev == g[b - 1]
                 IN  IF prev = prev
                     THEN blk(prev, 8 * (b - 1) + 1, IF 8 * b < n THEN 8 * b ELSE n)
                     ELSE prev
    IN  g[nb]

range(n) == [i \in 1..n |-> i - 1]

\* the elements of a set in the order a loop visits them
RECURSIVE SetToSeq(_)
SetToSeq(S) ==
    IF S = {} THEN <<>>
    ELSE LET e == CHOOSE e \in S : TRUE IN <<e>> \o SetToSeq(S \ {e})

\* python values of the two types that meet in one dict key position
int(n) == <<"int", n>>
str(s) == <<"str", s>>

Min(S) == CHOOSE n \in S : \A k \in S : n <= k

\* the members of the enums Side and Resource
Side(s) == <<"Side", s>>
Resource(r) == <<"Resource", r>>

SideNames == <<"N", "S", "E", "W">>

\* the list [N, S, E, W] of parse_xml
sides == [i \in 1..4 |-> Side(SideNames[i])]

\* the side table of fabricfuns: the tile and the side that receive what leaves
\* (x, y) by side
mapSide(x, y, side) ==
    CASE side = Side("N") -> <<x, y - 1, Side("S")>>
      [] side = Side("S") -> <<x, y + 1, Side("N")>>
      [] side = Side("E") -> <<x + 1, y, Side("W")>>
      [] side = Side("W") -> <<x - 1, y, Side("E")>>

\* a bus name, and the width left by bus[3:]
BUS(w) == IF w = "16" THEN "BUS16" ELSE "BUS1"
BusWidth(bus) == IF bus = "BUS16" THEN "16" ELSE "1"

\* wire names, as their fields between the underscores:
\*   <in|out>_BUS<w>_<side>_<track> of a switch box, pe_out_res,
\*   in_<side>_BUS<w>_<track> of a memory tile, and the named memory wires
SBWire(direc, w, side, track) == <<direc, BUS(w), side, track>>
PEOut == <<"pe", "out", "res">>
MemWire(direc, w, side, track) == <<direc, side, BUS(w), track>>
NamedWire(name) == <<name>>

parse_name(name) == <<name[1], BusWidth(name[2]), Side(name[3]), name[4]>>
parse_mem_tile_name(name) == <<name[1], BusWidth(name[3]), Side(name[2]), name[4]>>
\* a wire inside a memory tile has no side; its name carries a track number
SBInternal(name, w, track) == <<name, BUS(w), "", track>>
parse_mem_sb_wire(name) == <<name[1], BusWidth(name[2]), name[3], name[4]>>

\* snk_name[-1:], the last character of a wire name that ends in a track number
LastChar(name) == name[Len(name)] % 10

---------------------------------------------------------------------------
(* The fabric files given to the builder *)

Mux(snk, reg, src) == [snk |-> snk, reg |-> reg, src |-> src]
Ft(snk, src) == [snk |-> snk, src |-> src]
Cb(bus, mux) == [bus |-> bus, mux |-> mux]
Sb(bus, row, mux, ft) == [bus |-> bus, row |-> row, mux |-> mux, ft |-> ft]
Tile(row, col, type, tracks, cb, sb) ==
    [row |-> row, col |-> col, type |-> type, tracks |-> tracks, cb |-> cb, sb |-> sb]

\* the sides a wire entering at side s may leave by; with turn = FALSE only straight on
OtherSides(s, turn) ==
    LET straight == CASE s = "N" -> "S" [] s = "S" -> "N" [] s = "E" -> "W" [] s = "W" -> "E"
    IN  IF turn THEN SelectSeq(SideNames, LAMBDA o : o # s) ELSE <<straight>>

\* a PE tile with T tracks: a connection box for the PE inputs a and b, and a switch
\* box whose outputs of the sides in regs are registered; the outputs of the sides
\* in fts are feedthroughs, the other outputs are muxes
PETile(row, col, T, regs, fts, turn) ==
    Tile(row, col, IF (row + col) % 2 = 0 THEN "pe_tile_new" ELSE "none",
         <<<<BUS("16"), T>>>>,
         <<Cb(BUS("16"),
              <<Mux(NamedWire("a"), "0", [t \in 1..T |-> SBWire("in", "16", "N", t - 1)]),
                Mux(NamedWire("b"), "0", [t \in 1..T |-> SBWire("in", "16", "W", t - 1)])>>),
           Cb(BUS("1"), <<Mux(NamedWire("d"), "0", <<SBWire("in", "1", "N", 0)>>)>>)>>,
         <<Sb(BUS("16"), 0,
              For(SelectSeq(SideNames, LAMBDA s : s \notin fts), <<>>,
                  LAMBDA acc, s :
                      acc \o [t \in 1..T |->
                                Mux(SBWire("out", "16", s, t - 1),
                                    IF s \in regs THEN "1" ELSE "0",
                                    <<PEOut>> \o
                                    [k \in 1..Len(OtherSides(s, turn)) |->
                                        SBWire("in", "16", OtherSides(s, turn)[k], t - 1)])]),
              For(SelectSeq(SideNames, LAMBDA s : s \in fts), <<>>,
                  LAMBDA acc, s :
                      acc \o [t \in 1..T |->
                                Ft(SBWire("out", "16", s, t - 1),
                                   SBWire("in", "16", OtherSides(s, FALSE)[1], t - 1))]))>>)

\* a memory tile of one row with T tracks: a connection box for wdata, and a switch
\* box that drives the east output from mem_out and from an internal wire
MemTile(row, col, T) ==
    Tile(row, col, "memory_tile",
         <<<<BUS("16"), T>>>>,
         <<Cb(BUS("16"),
              <<Mux(NamedWire("wdata"), "0", [t \in 1..T |-> MemWire("in", "16", "W", t - 1)])>>)>>,
         <<Sb(BUS("16"), 0,
              <<Mux(SBInternal("sb_wire", "16", 0), "0",
                    <<MemWire("in", "16", "W", 0), NamedWire("mem_out")>>),
                Mux(MemWire("out", "16", "E", 0), "1",
                    <<SBInternal("sb_wire", "16", 0), NamedWire("valid")>>)>>,
              <<>>)>>)

\* the tiles of a fabric of c columns and r rows, row by row; mem is the set of
\* columns that hold memory tiles
Tiles(c, r, T, regs, fts, turn, mem) ==
    For(range(r), <<>>,
        LAMBDA acc, row :
            acc \o [k \in 1..c |->
                      IF (k - 1) \in mem THEN MemTile(row, k - 1, T)
                      ELSE PETile(row, k - 1, T, regs, fts, turn)])

\* the wirings of a PE tile: the registered sides, the feedthrough sides, and turns
Wirings ==
    {[regs |-> {}, fts |-> {}, turn |-> TRUE],
     [regs |-> {"E"}, fts |-> {}, turn |-> FALSE],
     [regs |-> {"S", "W"}, fts |-> {"E"}, turn |-> TRUE],
     [regs |-> {"N", "S", "E", "W"}, fts |-> {"E"}, turn |-> FALSE]}

BuildXmls ==
    {Tiles(c, r, T, wr.regs, wr.fts, wr.turn, mem) :
        c \in 1..Cols, r \in 1..Rows, T \in 1..MaxTracks,
        wr \in Wirings, mem \in {{}, {Cols - 1}}}

---------------------------------------------------------------------------
(* Objects *)

EmptyHeap == [port |-> <<>>, track |-> <<>>, set |-> <<>>, list |-> <<>>]

\* Port.__init__: the new port is the last of h.port, with two new empty sets
NewPort(h, x, y, resource, track, direction) ==
    [h EXCEPT !.port = Append(@, [x |-> x, y |-> y, resource |-> resource,
                                  track |-> track, direction |-> direction,
                                  inputs |-> Len(h.set) + 1,
                                  outputs |-> Len(h.set) + 2]),
              !.set = @ \o <<{}, {}>>]

NewTrack_src_only(h, src, dst, width) ==
    LET t == Len(h.track) + 1
    IN  [h EXCEPT !.track = Append(@, [src |-> src, dst |-> dst, width |-> width]),
                  !.set = [i \in DOMAIN @ |->
                             IF i = h.port[src].outputs THEN @[i] \cup {t} ELSE @[i]]]

\* Track.__init__: the new track is the last of h.track
NewTrack(h, src, dst, width) ==
    LET t == Len(h.track) + 1
    IN  [h EXCEPT !.track = Append(@, [src |-> src, dst |-> dst, width |-> width]),
                  !.set = [i \in DOMAIN @ |->
                             IF i = h.port[src].outputs \/ i = h.port[dst].inputs
                             THEN @[i] \cup {t} ELSE @[i]]]

\* a new list object holding the ports ps
NewList(h, ps) == [h EXCEPT !.list = Append(@, ps)]

\* [Port(x, y, resource, t, direction) for t in range(0, n)], as a new list object
PortList(h, x, y, resource, n, direction) ==
    LET h1 == For(range(n), h, LAMBDA a, t : NewPort(a, x, y, resource, int(t), direction))
    IN  NewList(h1, [t \in 1..n |-> Len(h.port) + t])

---------------------------------------------------------------------------
(* The builder functions *)

\* pre_process: what params.update receives. Every memory tile of BuildXmls has a
\* switch box, so r_incr is bound when mem_bounds is extended.
pre_process(root) ==
    For(root,
        [rows |-> 0, cols |-> 0, num_tracks |-> <<>>, bus_widths |-> {},
         pe_locations |-> [b \in BOOLEAN |-> {}], mem_locations |-> {},
         mem_bounds |-> {}, reg_locations |-> {}],
        LAMBDA a, tile :
            LET r == tile.row
                c == tile.col
                a1 == [a EXCEPT !.rows = IF r > @ THEN r ELSE @,
                                !.cols = IF c > @ THEN c ELSE @]
                a2 == For(tile.tracks, a1,
                          LAMBDA b, tr :
                              [b EXCEPT !.num_tracks = Put(@, <<c, r, BusWidth(tr[1])>>, tr[2]),
                                        !.bus_widths = @ \cup {BusWidth(tr[1])}])
                a3 == IF tile.type = "none" \/ tile.type = "pe_tile_new"
                      THEN For(tile.sb, a2,
                               LAMBDA b, sb :
                                   For(sb.mux, b,
                                       LAMBDA d, mux :
                                           IF mux.reg = "1"
                                           THEN [d EXCEPT !.reg_locations =
                                                    @ \cup {<<c, r, LastChar(mux.snk)>>}]
                                           ELSE d))
                      ELSE a2
            IN  IF tile.type = "memory_tile"
                THEN LET b1 == [a3 EXCEPT !.mem_locations = @ \cup {<<c, r>>},
                                          !.pe_locations[FALSE] = @ \cup {<<c, r>>}]
                         b2 == For(tile.sb, b1,
                                   LAMBDA b, sb :
                                       [b EXCEPT
                                          !.pe_locations[FALSE] = @ \cup {<<c, r + sb.row>>},
                                          !.num_tracks =
                                              Put(@, <<c, r + sb.row, BusWidth(sb.bus)>>,
                                                  b.num_tracks[<<c, r, BusWidth(sb.bus)>>])])
                         r_incr == tile.sb[Len(tile.sb)].row
                     IN  [b2 EXCEPT !.mem_bounds = @ \cup {<<c, r, r + r_incr>>}]
                ELSE [a3 EXCEPT !.pe_locations[TRUE] = @ \cup {<<c, r>>}])

\* the params dict after pre_process and the four assignments that open the loop
\* body of parse_xml; the entries named <key> + bus_width are functions of bus_width
InitParams(root) ==
    LET pre == pre_process(root)
        per(v) == [bw \in pre.bus_widths |-> v]
    IN  [sides |-> sides,
         rows |-> pre.rows + 1, cols |-> pre.cols + 1, num_tracks |-> pre.num_tracks,
         bus_widths |-> pre.bus_widths, pe_locations |-> pre.pe_locations,
         mem_locations |-> pre.mem_locations, mem_bounds |-> pre.mem_bounds,
         reg_locations |-> pre.reg_locations,
         sinks |-> per(<<>>), sources |-> per(<<>>), ports |-> per(<<>>),
         mem |-> per(<<>>), SB |-> per(<<>>), Mem |-> per(<<>>), PE |-> per(<<>>),
         tracks |-> per(<<>>), port_names |-> per(<<>>),
         trackconfig |-> <<>>]

\* list[t] of the list object l
At(h, l, t) == h.list[l][t + 1]

generate_layer(bus_width, w) ==
    LET p == w.p
        nt(x, y) == p.num_tracks[<<x, y, bus_width>>]
        g0 == [h |-> w.h, SB |-> <<>>, Mem |-> <<>>,
               sources |-> p.sources[bus_width], fabports |-> p.ports[bus_width]]
        \* the ports of a new list are appended to fabports and the list is kept at key
        AddList(g, dct, key, x, y, side, n) ==
            LET h1 == PortList(g.h, x, y, side, n, "i")
                l  == Len(h1.list)
            IN  [g EXCEPT !.h = h1,
                          ![dct] = Put(@, key, l),
                          !.fabports = @ \o h1.list[l]]
        Edge(g, cond, x, y, side) ==
            IF cond
            THEN For(range(nt(x, y)), g,
                     LAMBDA a, t :
                         [a EXCEPT !.sources =
                             Put(@, <<x, y, int(t)>>, At(a.h, a.SB[<<x, y, side, "in">>], t))])
            ELSE g
        g1 == For(SetToSeq(p.pe_locations[TRUE]), g0,
                  LAMBDA g, loc :
                      LET x == loc[1]
                          y == loc[2]
                          a1 == For(p.sides, g,
                                    LAMBDA a, side :
                                        AddList(a, "SB", <<x, y, side, "in">>,
                                                x, y, side, nt(x, y)))
                          a2 == Edge(a1, x = 0, 0, y, Side("W"))
                          a3 == Edge(a2, x = p.cols - 1, p.cols - 1, y, Side("E"))
                          a4 == Edge(a3, y = 0, x, 0, Side("N"))
                      IN  Edge(a4, y = p.rows - 1, x, p.rows - 1, Side("S")))
        g2 == For(SetToSeq(p.mem_bounds), g1,
                  LAMBDA g, bound :
                      LET x == bound[1]
                          lowery == bound[2]
                          uppery == bound[3]
                          \* fabports = fabports + portsN + portsS
                          a1 == AddList(g, "Mem", <<x, lowery, Side("N"), "in">>,
                                        x, lowery, Side("N"), nt(x, lowery))
                          a2 == AddList(a1, "Mem", <<x, uppery, Side("S"), "in">>,
                                        x, lowery, Side("S"), nt(x, uppery))
                      IN  For([i \in 1..(uppery - lowery + 1) |-> lowery + i - 1], a2,
                              LAMBDA a, y :
                                  AddList(AddList(a, "Mem", <<x, y, Side("W"), "in">>,
                                                  x, lowery, Side("W"), nt(x, y)),
                                          "Mem", <<x, y, Side("E"), "in">>,
                                          x, lowery, Side("E"), nt(x, y))))
    IN  [h |-> g2.h,
         p |-> [p EXCEPT !.sources[bus_width] = g2.sources,
                         !.ports[bus_width] = g2.fabports,
                         !.SB[bus_width] = g2.SB,
                         !.Mem[bus_width] = g2.Mem]]

SetOut_copy(g, dct, x, y, side, l) ==
    LET h1 == NewList(g.h, g.h.list[l])
    IN  [g EXCEPT !.h = h1, ![dct] = Put(@, <<x, y, side, "out">>, Len(h1.list))]

\* SB[(x, y, side, 'out')] = l, for the list object l
SetOut(g, dct, x, y, side, l) == [g EXCEPT ![dct] = Put(@, <<x, y, side, "out">>, l)]

connect_tiles(bus_width, w) ==
    LET p == w.p
        nt(x, y) == p.num_tracks[<<x, y, bus_width>>]
        SB0 == p.SB[bus_width]
        Mem0 == p.Mem[bus_width]
        SBorMem == [k \in DOMAIN SB0 \cup DOMAIN Mem0 |->
                       IF k \in DOMAIN Mem0 THEN Mem0[k] ELSE SB0[k]]
        \* one side of one tile: the out list is the neighbour's in list, or new ports
        Connect(g, dct, x, y, side) ==
            LET adj == mapSide(x, y, side)
                key == <<adj[1], adj[2], adj[3], "in">>
            IN  IF key \in DOMAIN SBorMem
                THEN SetOut(g, dct, x, y, side, SBorMem[key])
                ELSE LET a == For(range(nt(x, y)), [g EXCEPT !.ports = <<>>],
                                  LAMBDA b, t :
                                      LET h1 == NewPort(b.h, x, y, side, int(t), "o")
                                          q  == Len(h1.port)
                                      IN  [b EXCEPT !.h = h1,
                                                    !.ports = Append(@, q),
                                                    !.sinks = Put(@, <<x, y, int(t)>>, q)])
                         h2 == NewList(a.h, a.ports)
                     IN  SetOut([a EXCEPT !.h = h2], dct, x, y, side, Len(h2.list))
        g0 == [h |-> w.h, SB |-> SB0, Mem |-> Mem0, sinks |-> p.sinks[bus_width],
               ports |-> <<>>]
        g1 == For(SetToSeq(p.pe_locations[TRUE]), g0,
                  LAMBDA g, loc :
                      For(p.sides, g, LAMBDA a, side : Connect(a, "SB", loc[1], loc[2], side)))
        g2 == For(SetToSeq(DOMAIN Mem0), g1,
                  LAMBDA g, loc : Connect(g, "Mem", loc[1], loc[2], loc[3]))
    IN  [h |-> g2.h,
         p |-> [p EXCEPT !.SB[bus_width] = g2.SB,
                         !.Mem[bus_width] = g2.Mem,
                         !.sinks[bus_width] = g2.sinks]]

\* int(bus_width)
IntOf(bus_width) == IF bus_width = "16" THEN 16 ELSE 1

Annotate_cb_only(g, track_names, parent) ==
    IF parent = "CB"
    THEN [g EXCEPT !.trackconfig = Put(@, Len(g.h.track), <<track_names, parent>>)]
    ELSE g

\* pnrconfig.trackconfig[track] = (track_names, parent), for the track made last
Annotate(g, track_names, parent) ==
    [g EXCEPT !.trackconfig = Put(@, Len(g.h.track), <<track_names, parent>>)]

\* tracks.append(track), for the track made last
AppendTrack(g) == [g EXCEPT !.tracks = Append(@, Len(g.h.track))]

MakeTrack(g, srcport, dstport, bus_width) ==
    [g EXCEPT !.h = NewTrack(@, srcport, dstport, IntOf(bus_width))]

connect_pe(root, bus_width, w) ==
    LET p == w.p
        g0 == [h |-> w.h, PE |-> p.PE[bus_width], sinks |-> p.sinks[bus_width],
               sources |-> p.sources[bus_width], tracks |-> p.tracks[bus_width],
               trackconfig |-> p.trackconfig, port_names |-> [PE |-> {}]]
        SB == p.SB[bus_width]
        g1 == For(root, g0,
                  LAMBDA g, tile :
                      LET y == tile.row
                          x == tile.col
                          h1 == NewPort(g.h, x, y, Resource("PE"), str(PEOut), "o")
                          a1 == [g EXCEPT !.h = h1,
                                          !.PE = Put(@, <<x, y, str(PEOut)>>, Len(h1.port)),
                                          !.sources = Put(@, <<x, y, str(PEOut)>>, Len(h1.port))]
                      IN  IF tile.type = "none" \/ tile.type = "pe_tile_new"
                          THEN For(SelectSeq(tile.cb, LAMBDA cb : cb.bus = BUS(bus_width)), a1,
                                   LAMBDA a, cb :
                                       For(cb.mux, a,
                                           LAMBDA b, mux :
                                               LET snk == mux.snk
                                                   h2 == NewPort(b.h, x, y, Resource("PE"),
                                                                 str(snk), "i")
                                                   b1 == [b EXCEPT
                                                            !.port_names.PE = @ \cup {snk},
                                                            !.h = h2,
                                                            !.PE = Put(@, <<x, y, str(snk)>>,
                                                                       Len(h2.port)),
                                                            !.sinks = Put(@, <<x, y, str(snk)>>,
                                                                          Len(h2.port))]
                                               IN  For(mux.src, b1,
                                                       LAMBDA d, port_name :
                                                           LET n == parse_name(port_name)
                                                               srcport == At(d.h,
                                                                   SB[<<x, y, n[3], n[1]>>], n[4])
                                                               dstport == d.PE[<<x, y, str(snk)>>]
                                                               d1 == MakeTrack(d, srcport, dstport,
                                                                               bus_width)
                                                               d2 == Annotate(d1,
                                                                       <<port_name, snk>>, "CB")
                                                           IN  AppendTrack(d2))))
                          ELSE a1)
    IN  [h |-> g1.h,
         p |-> [p EXCEPT !.PE[bus_width] = g1.PE,
                         !.sinks[bus_width] = g1.sinks,
                         !.sources[bus_width] = g1.sources,
                         !.tracks[bus_width] = g1.tracks,
                         !.port_names[bus_width] = g1.port_names,
                         !.trackconfig = g1.trackconfig]]

connect_memtiles_cb(root, bus_width, w) ==
    LET p == w.p
        g0 == [h |-> w.h, Mem |-> p.Mem[bus_width], sinks |-> p.sinks[bus_width],
               tracks |-> p.tracks[bus_width], trackconfig |-> p.trackconfig,
               port_names |-> [PE |-> p.port_names[bus_width].PE, Mem |-> {}]]
        g1 == For(SelectSeq(root, LAMBDA tile : tile.type = "memory_tile"), g0,
                  LAMBDA g, tile :
                      LET y == tile.row
                          x == tile.col
                      IN  For(SelectSeq(tile.cb, LAMBDA cb : cb.bus = BUS(bus_width)), g,
                              LAMBDA a, cb :
                                  For(cb.mux, a,
                                      LAMBDA b, mux :
                                          LET snk == mux.snk
                                              h2 == NewPort(b.h, x, y, Resource("Mem"),
                                                            str(snk), "i")
                                              dstport == Len(h2.port)
                                              b1 == [b EXCEPT
                                                       !.port_names.Mem = @ \cup {snk},
                                                       !.h = h2,
                                                       !.Mem = Put(@, <<x, y, str(snk)>>, dstport),
                                                       !.sinks = Put(@, <<x, y, str(snk)>>, dstport)]
                                          IN  For(mux.src, b1,
                                                  LAMBDA d, port_name :
                                                      LET n == parse_mem_tile_name(port_name)
                                                          srcport == At(d.h,
                                                              d.Mem[<<x, y, n[3], n[1]>>], n[4])
                                                          d1 == MakeTrack(d, srcport, dstport,
                                                                          bus_width)
                                                          d2 == Annotate(d1,
                                                                  <<port_name, snk>>, "CB")
                                                      IN  AppendTrack(d2)))))
    IN  [h |-> g1.h,
         p |-> [p EXCEPT !.Mem[bus_width] = g1.Mem,
                         !.sinks[bus_width] = g1.sinks,
                         !.tracks[bus_width] = g1.tracks,
                         !.port_names[bus_width] = g1.port_names,
                         !.trackconfig = g1.trackconfig]]

connect_memtiles_internal(root, bus_width, w) ==
    LET p == w.p
        g0 == [h |-> w.h, Mem |-> p.Mem[bus_width], fabports |-> p.ports[bus_width],
               sources |-> p.sources[bus_width], tracks |-> p.tracks[bus_width],
               trackconfig |-> p.trackconfig, snkport |-> 0, srcport |-> 0]
        g1 == For(SelectSeq(root, LAMBDA tile : tile.type = "memory_tile"), g0,
                  LAMBDA g, tile :
                      LET tile_y == tile.row
                          x == tile.col
                      IN  For(SelectSeq(tile.sb, LAMBDA sb : sb.bus = BUS(bus_width)), g,
                              LAMBDA a, sb :
                                  LET y == tile_y + sb.row
                                  IN  For(sb.mux, a,
                                          LAMBDA b, mux :
                                              LET snk == mux.snk
                                                  \* get or create the snk port
                                                  b1 ==
                                                    IF snk[1] = "out"
                                                    THEN LET n == parse_mem_tile_name(snk)
                                                         IN  [b EXCEPT !.snkport =
                                                                At(b.h, b.Mem[<<x, y, n[3], n[1]>>],
                                                                   n[4])]
                                                    ELSE LET n == parse_mem_sb_wire(snk)
                                                             kin == <<x, tile_y, str(snk), "in">>
                                                             kout == <<x, tile_y, str(snk), "out">>
                                                         IN  IF kin \in DOMAIN b.Mem
                                                             THEN [b EXCEPT
                                                                     !.Mem = Put(@, kout, b.Mem[kin]),
                                                                     !.snkport = b.Mem[kin]]
                                                             ELSE LET h1 == NewPort(b.h, x, tile_y,
                                                                              Resource("Mem"),
                                                                              int(n[4]), "in")
                                                                      q == Len(h1.port)
                                                                  IN  [b EXCEPT
                                                                         !.h = h1,
                                                                         !.snkport = q,
                                                                         !.Mem = Put(Put(@, kin, q),
                                                                                     kout, q),
                                                                         !.fabports = Append(@, q)]
                                              IN  For(mux.src, b1,
                                                      LAMBDA d, src_name :
                                                          LET \* get or create the src port
                                                              kin == <<x, tile_y, str(src_name), "in">>
                                                              d1 ==
                                                                IF src_name[1] = "in"
                                                                THEN LET n == parse_mem_tile_name(src_name)
                                                                     IN  [d EXCEPT !.srcport =
                                                                            At(d.h,
                                                                               d.Mem[<<x, y, n[3], n[1]>>],
                                                                               n[4])]
                                                                ELSE LET d0 ==
                                                                           IF kin \in DOMAIN d.Mem
                                                                           THEN [d EXCEPT !.srcport = d.Mem[kin]]
                                                                           ELSE LET h1 == NewPort(d.h, x, tile_y,
                                                                                            Resource("Mem"),
                                                                                            str(src_name), "in")
                                                                                    q == Len(h1.port)
                                                                                IN  [d EXCEPT
                                                                                       !.h = h1,
                                                                                       !.srcport = q,
                                                                                       !.Mem = Put(@, kin, q),
                                                                                       !.fabports = Append(@, q)]
                                                                     IN  IF src_name \in {NamedWire("valid"),
                                                                                          NamedWire("almost_full"),
                                                                                          NamedWire("mem_out")}
                                                                         THEN [d0 EXCEPT !.sources =
                                                                                 Put(@, <<x, y, str(src_name)>>,
                                                                                     d0.srcport)]
                                                                         ELSE d0
                                                              d2 == MakeTrack(d1, d1.srcport, d1.snkport,
                                                                              bus_width)
                                                              d3 == Annotate(d2, <<src_name, snk>>, "SB")
                                                          IN  AppendTrack(d3)))))
    IN  [h |-> g1.h,
         p |-> [p EXCEPT !.Mem[bus_width] = g1.Mem,
                         !.ports[bus_width] = g1.fabports,
                         !.sources[bus_width] = g1.sources,
                         !.tracks[bus_width] = g1.tracks,
                         !.trackconfig = g1.trackconfig]]

\* the source port of an SB mux input: the PE output or another side of the SB
SBSource(h, SB, PE, x, y, port_name) ==
    IF port_name[1] = "pe"
    THEN PE[<<x, y, str(PEOut)>>]
    ELSE LET n == parse_name(port_name)
         IN  At(h, SB[<<x, y, n[3], n[1]>>], n[4])

connect_sb(root, bus_width, w) ==
    LET p == w.p
        SB == p.SB[bus_width]
        PE == p.PE[bus_width]
        g0 == [h |-> w.h, tracks |-> p.tracks[bus_width], trackconfig |-> p.trackconfig]
        g1 == For(SelectSeq(root, LAMBDA tile : tile.type = "none" \/ tile.type = "pe_tile_new"),
                  g0,
                  LAMBDA g, tile :
                      LET x == tile.col
                          y == tile.row
                      IN  For(SelectSeq(tile.sb, LAMBDA sb : sb.bus = BUS(bus_width)), g,
                              LAMBDA a, sb :
                                  LET a1 == For(sb.mux, a,
                                                LAMBDA b, mux :
                                                    LET snk == parse_name(mux.snk)
                                                    IN  For(mux.src, b,
                                                            LAMBDA d, port_name :
                                                                LET dstport == At(d.h,
                                                                        SB[<<x, y, snk[3], snk[1]>>],
                                                                        snk[4])
                                                                    srcport == SBSource(d.h, SB, PE,
                                                                                        x, y, port_name)
                                                                    d1 == MakeTrack(d, srcport, dstport,
                                                                                    bus_width)
                                                                    d2 == Annotate(d1,
                                                                            <<port_name, mux.snk>>, "SB")
                                                                IN  AppendTrack(d2)))
                                  \* now connect feedthroughs
                                  IN  For(sb.ft, a1,
                                          LAMBDA b, ft :
                                              LET snk == parse_name(ft.snk)
                                                  src == parse_name(ft.src)
                                                  srcport == At(b.h, SB[<<x, y, src[3], src[1]>>],
                                                                src[4])
                                                  dstport == At(b.h, SB[<<x, y, snk[3], snk[1]>>],
                                                                snk[4])
                                                  b1 == MakeTrack(b, srcport, dstport, bus_width)
                                                  b2 == Annotate(b1, <<ft.src, ft.snk>>, "SB")
                                              IN  AppendTrack(b2))))
    IN  [h |-> g1.h,
         p |-> [p EXCEPT !.tracks[bus_width] = g1.tracks,
                         !.trackconfig = g1.trackconfig]]

LayerPorts_unfiltered(h, sources, sinks, ports) ==
    For(ports, <<>>,
        LAMBDA d, port :
            Put(d, <<h.port[port].x, h.port[port].y, h.port[port].track,
                     h.port[port].resource>>, port))

\* FabricLayer.__init__: the dict _ports
LayerPorts(h, sources, sinks, ports) ==
    For(ports, <<>>,
        LAMBDA d, port :
            IF port \notin Range(sources) \cup Range(sinks)
            THEN Put(d, <<h.port[port].x, h.port[port].y, h.port[port].track,
                          h.port[port].resource>>, port)
            ELSE d)

FabricLayer(h, sources, sinks, ports, tracks, port_names) ==
    [sources |-> sources, sinks |-> sinks, ports |-> LayerPorts(h, sources, sinks, ports),
     tracks |-> tracks, port_names |-> port_names]

\* Fabric.__init__, from the parsed params
BuiltFabric(h, parsed_params) ==
    [rows |-> parsed_params.rows,
     cols |-> parsed_params.cols,
     num_tracks |-> Min(Range(parsed_params.num_tracks)),
     locations |-> [PE |-> parsed_params.pe_locations[TRUE],
                    Mem |-> parsed_params.mem_locations,
                    Reg |-> parsed_params.reg_locations \ parsed_params.mem_locations],
     pe_locations |-> parsed_params.pe_locations,
     mem_locations |-> parsed_params.mem_locations,
     config |-> [trackconfig |-> parsed_params.trackconfig],
     layers |-> [n \in {IntOf(bw) : bw \in parsed_params.bus_widths} |->
                   LET bus_width == CHOOSE bw \in parsed_params.bus_widths : IntOf(bw) = n
                   IN  FabricLayer(h, parsed_params.sources[bus_width],
                                   parsed_params.sinks[bus_width],
                                   parsed_params.ports[bus_width],
                                   parsed_params.tracks[bus_width],
                                   parsed_params.port_names[bus_width])]]

split_keep_dst(h, self) ==
    LET o      == h.port[self]
        h1     == NewPort(h, o.x, o.y, o.resource, o.track, "regi")
        inport == Len(h1.port)
        h2     == [h1 EXCEPT !.port[inport].outputs = o.outputs]
        h3     == [h2 EXCEPT !.track = [t \in DOMAIN @ |->
                                          IF t \in h2.set[h2.port[inport].outputs]
                                          THEN [@[t] EXCEPT !.src = inport] ELSE @[t]]]
        out    == mapSide(o.x, o.y, o.resource)
        h4     == NewPort(h3, out[1], out[2], out[3], o.track, "rego")
        outport == Len(h4.port)
        h5     == [h4 EXCEPT !.port[outport].inputs = o.inputs]
    IN  [h |-> h5, outport |-> outport, inport |-> inport]

\* Port.split: the heap after the call, with the two ports it returns
split(h, self) ==
    LET o      == h.port[self]
        h1     == NewPort(h, o.x, o.y, o.resource, o.track, "regi")
        inport == Len(h1.port)
        \* inport._outputs = self._outputs: the same set object
        h2     == [h1 EXCEPT !.port[inport].outputs = o.outputs]
        h3     == [h2 EXCEPT !.track = [t \in DOMAIN @ |->
                                          IF t \in h2.set[h2.port[inport].outputs]
                                          THEN [@[t] EXCEPT !.src = inport] ELSE @[t]]]
        out    == mapSide(o.x, o.y, o.resource)
        h4     == NewPort(h3, out[1], out[2], out[3], o.track, "rego")
        outport == Len(h4.port)
        h5     == [h4 EXCEPT !.port[outport].inputs = o.inputs]
        h6     == [h5 EXCEPT !.track = [t \in DOMAIN @ |->
                                          IF t \in h5.set[h5.port[outport].inputs]
                                          THEN [@[t] EXCEPT !.dst = outport] ELSE @[t]]]
    IN  [h |-> h6, outport |-> outport, inport |-> inport]

\* pos_to_side: the sides it may return for a register at modpos that drives outmodpos
pos_to_side(modpos, outmodpos, vertport) == Range(sides)

\* the key of the layer's ports that a register's placement names
PortKey(pos) == <<pos[1], pos[2], int(pos[3]), pos[4]>>

\* process_regs; pick[mod] is the side pos_to_side returns for mod. An exception
\* (outmod not yet bound, or no port at the key) leaves the state reached so far.
process_regs(d, ps, fab, h, pick) ==
    For([i \in 1..Len(d.modules) |-> i],
        [p_state |-> ps, layer |-> fab.layers[Layer], h |-> h,
         outmod |-> 0, dst_port |-> "", err |-> FALSE],
        LAMBDA s, mod :
            IF s.err \/ d.modules[mod].resource # "Reg" THEN s
            ELSE LET outs == SelectSeq(d.nets, LAMBDA net :
                                 net.src = mod /\ net.dst \in DOMAIN s.p_state)
                     outmod == IF outs = <<>> THEN s.outmod ELSE outs[Len(outs)].dst
                     dst_port == IF outs = <<>> THEN s.dst_port ELSE outs[Len(outs)].dst_port
                 IN  IF outmod = 0 \/ mod \notin DOMAIN s.p_state
                     THEN [s EXCEPT !.err = TRUE]
                     ELSE LET modpos == SubSeq(s.p_state[mod], 1, Len(s.p_state[mod]) - 1)
                              outmodpos == SubSeq(s.p_state[outmod], 1, 2)
                              vertport == IF d.modules[outmod].resource = "PE"
                                          THEN IF dst_port \in {"a", "c"} THEN "True" ELSE "False"
                                          ELSE "None"
                              side == CHOOSE sd \in pos_to_side(modpos, outmodpos, vertport) :
                                          sd = pick[mod]
                              newstate == Append(s.p_state[mod], side)
                              s1 == [s EXCEPT !.p_state[mod] = newstate,
                                              !.outmod = outmod, !.dst_port = dst_port]
                              key == PortKey(newstate)
                          IN  IF key \notin DOMAIN s1.layer.ports
                              THEN [s1 EXCEPT !.err = TRUE]
                              ELSE LET origport == s1.layer.ports[key]
                                       r == split(s1.h, origport)
                                   IN  [s1 EXCEPT
                                          !.h = r.h,
                                          !.layer.ports = [k \in DOMAIN @ \ {key} |-> @[k]],
                                          !.layer.sinks = Put(@, key, r.outport),
                                          !.layer.sources = Put(@, key, r.inport)])

---------------------------------------------------------------------------
(* The designs and placements given to process_regs *)

RegDesigns ==
    {[modules |-> <<Module("Reg", FALSE), Module("PE", FALSE)>>,
      nets |-> <<Net(1, "out", 2, "a", 16)>>],
     [modules |-> <<Module("Reg", FALSE), Module("Reg", FALSE), Module("PE", FALSE)>>,
      nets |-> <<Net(1, "out", 2, "a", 16), Net(2, "out", 3, "b", 16)>>],
     [modules |-> <<Module("Reg", FALSE), Module("PE", FALSE), Module("Reg", FALSE)>>,
      nets |-> <<Net(1, "out", 2, "b", 16), Net(2, "out", 3, "a", 16)>>],
     [modules |-> <<Module("PE", FALSE), Module("Reg", FALSE)>>,
      nets |-> <<Net(1, "out", 2, "a", 16)>>]}

\* the models of the placer on the built fabric under PLACE_CONSTRAINTS: a PE on a
\* PE location, a Reg on a register location, distinct and nearest_neighbor
RegModels(d, fab) ==
    {v \in [DOMAIN d.modules -> [x : 0..(fab.cols - 1), y : 0..(fab.rows - 1),
                                 c : 0..(NumColors - 1)]] :
        /\ \A m \in DOMAIN v :
              IF d.modules[m].resource = "Reg"
              THEN <<v[m].x, v[m].y, v[m].c>> \in fab.locations.Reg
              ELSE flat(v[m]) \in fab.locations.PE /\ v[m].c = 0
        /\ distinct(d, v)
        /\ nearest_neighbor(d, v)}

---------------------------------------------------------------------------
(* BuildSpec *)

World == [h |-> heap, p |-> params]

\* the one bus width of the fabric files of BuildXmls
TheBus == CHOOSE bw \in params.bus_widths : TRUE

BuildStep(from, to, w) ==
    /\ bpc = from
    /\ heap' = w.h
    /\ params' = w.p
    /\ bpc' = to
    /\ UNCHANGED <<design, xml, placeVars, routeVars, driverVars, attemptVars>>

BuildInit ==
    /\ design \in RegDesigns
    /\ xml \in BuildXmls
    /\ params = <<>>
    /\ heap = <<>>
    /\ bpc = "parse_xml"
    /\ PlaceIdle
    /\ RouteIdle
    /\ DriverIdle
    /\ AttemptIdle

PreProcess ==
    BuildStep("parse_xml", "generate_layer", [h |-> EmptyHeap, p |-> InitParams(xml)])

GenerateLayer ==
    bpc = "generate_layer" /\
    BuildStep("generate_layer", "connect_tiles", generate_layer(TheBus, World))

ConnectTiles ==
    bpc = "connect_tiles" /\
    BuildStep("connect_tiles", "connect_pe", connect_tiles(TheBus, World))

ConnectPE ==
    bpc = "connect_pe" /\
    BuildStep("connect_pe", "connect_memtiles_cb", connect_pe(xml, TheBus, World))

ConnectMemtilesCB ==
    bpc = "connect_memtiles_cb" /\
    BuildStep("connect_memtiles_cb", "connect_memtiles_internal",
              connect_memtiles_cb(xml, TheBus, World))

ConnectMemtilesInternal ==
    bpc = "connect_memtiles_internal" /\
    BuildStep("connect_memtiles_internal", "connect_sb",
              connect_memtiles_internal(xml, TheBus, World))

ConnectSB ==
    bpc = "connect_sb" /\
    BuildStep("connect_sb", "Fabric", connect_sb(xml, TheBus, World))

\* return Fabric(params): params goes out of scope
MakeFabric ==
    /\ bpc = "Fabric"
    /\ fabric' = BuiltFabric(heap, params)
    /\ params' = <<>>
    /\ bpc' = "built"
    /\ UNCHANGED <<design, xml, heap, placeVars, p_state, graph, asserted, enabled, rpc,
                   net_i, edge_i, path, invariant_check, r_state, driverVars, attemptVars>>

\* a successful placement, read by place_model_reader
PlaceOnFabric ==
    /\ bpc = "built"
    /\ \E v \in RegModels(design, fabric) :
          /\ pvars' = v
          /\ p_state' = place_model_reader(design, v)
    /\ bpc' = "placed"
    /\ UNCHANGED <<design, xml, params, heap, gen, applied, fabric, graph, asserted,
                   enabled, rpc, net_i, edge_i, path, invariant_check, r_state,
                   driverVars, attemptVars>>

ProcessRegs ==
    /\ bpc = "placed"
    /\ \E pick \in [modules_with_type(design, "Reg") -> Range(sides)] :
          LET s == process_regs(design, p_state, fabric, heap, pick)
          IN  /\ p_state' = s.p_state
              /\ fabric' = [fabric EXCEPT !.layers[Layer] = s.layer]
              /\ heap' = s.h
              /\ bpc' = IF s.err THEN "error" ELSE "done"
    /\ UNCHANGED <<design, xml, params, placeVars, graph, asserted, enabled, rpc,
                   net_i, edge_i, path, invariant_check, r_state, driverVars, attemptVars>>

BuildNext ==
    \/ PreProcess
    \/ GenerateLayer
    \/ ConnectTiles
    \/ ConnectPE
    \/ ConnectMemtilesCB
    \/ ConnectMemtilesInternal
    \/ ConnectSB
    \/ MakeFabric
    \/ PlaceOnFabric
    \/ ProcessRegs

BuildSpec == BuildInit /\ [][BuildNext]_vars

---------------------------------------------------------------------------
(* Properties of the fabric builder and of process_regs *)

Built == bpc \in {"built", "placed", "done", "error"}

RegMods == modules_with_type(design, "Reg")

\* t in t.src.outputs and t in t.dst.inputs, for every track of the heap h
TrackConsistent(h) ==
    \A t \in DOMAIN h.track :
        /\ t \in h.set[h.port[h.track[t].src].outputs]
        /\ t \in h.set[h.port[h.track[t].dst].inputs]

\* C13: track consistency is an invariant of the fabric: after a Track is created,
\* and after the Port.split calls of process_regs, every track t is a member of
\* t.src.outputs and of t.dst.inputs.
C13_TrackConsistency ==
    bpc \notin {"idle", "parse_xml"} => TrackConsistent(heap)

\* C13 witness: process_regs has split the port of a register, and the port had
\* tracks entering it and tracks leaving it
C13_Witness ==
    /\ bpc = "done"
    /\ \E m \in RegMods :
          LET k == PortKey(p_state[m])
              l == fabric.layers[Layer]
          IN  /\ heap.set[heap.port[l.sources[k]].outputs] # {}
              /\ heap.set[heap.port[l.sinks[k]].inputs] # {}

\* C14: for every layer the ports held by sources, by sinks and by ports are
\* pairwise disjoint by identity, after the layer is made and after process_regs.
C14_Disjoint ==
    Built =>
        \A n \in DOMAIN fabric.layers :
            LET l == fabric.layers[n]
            IN  /\ Range(l.sources) \cap Range(l.sinks) = {}
                /\ Range(l.sources) \cap Range(l.ports) = {}
                /\ Range(l.sinks) \cap Range(l.ports) = {}

\* C14 witness: two registers were split on a layer that keeps ports of all three kinds
C14_Witness ==
    /\ bpc = "done"
    /\ Cardinality(RegMods) = 2
    /\ \A m \in RegMods : PortKey(p_state[m]) \in DOMAIN fabric.layers[Layer].sources
    /\ DOMAIN fabric.layers[Layer].ports # {}
    /\ \E k \in DOMAIN fabric.layers[Layer].sinks : Len(k) = 3

AfterConnectTiles ==
    bpc \in {"connect_pe", "connect_memtiles_cb", "connect_memtiles_internal",
             "connect_sb", "Fabric"}

\* the in collection of the tile and side that mapSide gives for (x, y, side), if any
NeighbourIn(bw, x, y, side) ==
    LET adj == mapSide(x, y, side)
        key == <<adj[1], adj[2], adj[3], "in">>
    IN  IF key \in DOMAIN params.Mem[bw] THEN {params.Mem[bw][key]}
        ELSE IF key \in DOMAIN params.SB[bw] THEN {params.SB[bw][key]}
        ELSE {}

\* C15: after connect_tiles, for every PE tile (x, y) and side s whose neighbour has
\* an input-port collection, the output collection of (x, y, s) is that very
\* collection, and no output port was made for that side.
C15_Alias ==
    AfterConnectTiles =>
        \A bw \in params.bus_widths : \A loc \in params.pe_locations[TRUE] :
            \A i \in DOMAIN sides :
                NeighbourIn(bw, loc[1], loc[2], sides[i]) # {} =>
                    /\ {params.SB[bw][<<loc[1], loc[2], sides[i], "out">>]}
                          = NeighbourIn(bw, loc[1], loc[2], sides[i])
                    /\ ~ \E q \in DOMAIN heap.port :
                            /\ heap.port[q].x = loc[1] /\ heap.port[q].y = loc[2]
                            /\ heap.port[q].resource = sides[i]
                            /\ heap.port[q].direction = "o"

\* C15 witness: connect_tiles has run on a fabric where a PE tile has a PE tile for
\* neighbour on one side, a memory tile on another, and the fabric edge on a third
C15_Witness ==
    /\ bpc = "connect_pe"
    /\ \E bw \in params.bus_widths : \E loc \in params.pe_locations[TRUE] :
          /\ \E i \in DOMAIN sides :
                LET adj == mapSide(loc[1], loc[2], sides[i])
                IN  /\ <<adj[1], adj[2], adj[3], "in">> \in DOMAIN params.SB[bw]
                    /\ NeighbourIn(bw, loc[1], loc[2], sides[i]) # {}
          /\ \E i \in DOMAIN sides :
                LET adj == mapSide(loc[1], loc[2], sides[i])
                IN  <<adj[1], adj[2], adj[3], "in">> \in DOMAIN params.Mem[bw]
          /\ \E i \in DOMAIN sides : NeighbourIn(bw, loc[1], loc[2], sides[i]) = {}

\* the effect of process_regs on the register m, between the state before (unprimed)
\* and the state after (primed)
SplitEffect(m) ==
    LET k    == PortKey(p_state'[m])
        l    == fabric.layers[Layer]
        l2   == fabric'.layers[Layer]
        orig == l.ports[k]
    IN  /\ k \in DOMAIN l.ports
        /\ k \notin DOMAIN l2.ports
        /\ k \in DOMAIN l2.sinks /\ k \in DOMAIN l2.sources
        /\ l2.sinks[k] # l2.sources[k]
        /\ l2.sinks[k] \notin DOMAIN heap.port
        /\ l2.sources[k] \notin DOMAIN heap.port
        /\ \A t \in DOMAIN heap.track :
              /\ heap.track[t].src = orig => heap'.track[t].src = l2.sources[k]
              /\ heap.track[t].dst = orig => heap'.track[t].dst = l2.sinks[k]
        /\ \A t \in DOMAIN heap'.track :
              heap'.track[t].src # orig /\ heap'.track[t].dst # orig
        /\ l2.tracks = l.tracks

\* C16: after process_regs, for every placed Reg module with key k: k is no longer a
\* key of the 16-bit layer's ports, sinks[k] and sources[k] are two distinct new
\* ports, every track that left the original port has sources[k] as its src, every
\* track that entered it has sinks[k] as its dst, no track refers to the original
\* port, and the layer's list of tracks is unchanged.
C16_SplitEffect ==
    [][(bpc = "placed" /\ bpc' = "done") => \A m \in RegMods : SplitEffect(m)]_vars

\* C16 witness: two registers were split, and a track joins the two split ports
C16_Witness ==
    /\ bpc = "done"
    /\ Cardinality(RegMods) = 2
    /\ \E m1 \in RegMods : \E m2 \in RegMods \ {m1} :
          \E t \in DOMAIN heap.track :
              /\ heap.track[t].src = fabric.layers[Layer].sources[PortKey(p_state[m1])]
              /\ heap.track[t].dst = fabric.layers[Layer].sinks[PortKey(p_state[m2])]

\* C17: every Track that the fabric builder appends to a layer's tracks has an entry
\* in pnrconfig.trackconfig, while the fabric is built and in the fabric returned.
C17_Annotated ==
    /\ bpc \in {"generate_layer", "connect_tiles", "Fabric"} \/ AfterConnectTiles =>
          \A bw \in params.bus_widths :
              Range(params.tracks[bw]) \subseteq DOMAIN params.trackconfig
    /\ Built =>
          \A n \in DOMAIN fabric.layers :
              Range(fabric.layers[n].tracks) \subseteq DOMAIN fabric.config.trackconfig

\* the tracks of the built layer whose annotation names the parent and whose ends
\* lie on ports of the resources in rs
TracksOf(parent, rs) ==
    {t \in Range(fabric.layers[Layer].tracks) :
        /\ fabric.config.trackconfig[t][2] = parent
        /\ heap.port[heap.track[t].dst].resource \in rs}

\* C17 witness: the built layer holds CB tracks, memory CB tracks, memory SB tracks,
\* SB mux tracks and feedthrough tracks
C17_Witness ==
    /\ bpc = "built"
    /\ TracksOf("CB", {Resource("PE")}) # {}
    /\ TracksOf("CB", {Resource("Mem")}) # {}
    /\ TracksOf("SB", {Resource("Mem")}) # {}
    /\ TracksOf("SB", Range(sides)) # {}
    /\ \E i \in DOMAIN xml : \E j \in DOMAIN xml[i].sb : xml[i].sb[j].ft # <<>>

\* C18: after place_model_reader followed by process_regs, the PlacementState entry
\* of every Reg module is (x, y, track, side), the key under which the port that was
\* split was stored in the 16-bit layer's ports; the entries of the other modules
\* are left as (x, y).
C18_RegEntry ==
    [][(bpc = "placed" /\ bpc' = "done") =>
          \A m \in DOMAIN design.modules :
              IF design.modules[m].resource = "Reg"
              THEN /\ Len(p_state'[m]) = 4
                   /\ SubSeq(p_state'[m], 1, 3) = <<pvars[m].x, pvars[m].y, pvars[m].c>>
                   /\ p_state'[m][4] \in Range(sides)
                   /\ PortKey(p_state'[m]) \in DOMAIN fabric.layers[Layer].ports
                   /\ LET q == heap.port[fabric.layers[Layer].ports[PortKey(p_state'[m])]]
                      IN  <<q.x, q.y, q.track, q.resource>> = PortKey(p_state'[m])
              ELSE /\ p_state'[m] = <<pvars[m].x, pvars[m].y>>
                   /\ p_state'[m] = p_state[m]]_vars

\* C18 witness: process_regs has run on a placement of two registers and a PE
C18_Witness ==
    /\ bpc = "done"
    /\ Cardinality(RegMods) = 2
    /\ \E m \in DOMAIN design.modules : design.modules[m].resource = "PE"
    /\ \A m \in RegMods : Len(p_state[m]) = 4

---------------------------------------------------------------------------
(* FuseSpec: excl_constraints on designs with chains of fused modules       *)

MaxChain == 2       \* fused modules between a producer and its consumer

\* A producer P, a chain of n fused modules and the consumer M, which the chain
\* enters at port; with other, a second producer Q drives M's other input; with
\* head = FALSE the chain has no producer (its first module has no input).
\* Modules: 1 = P, 2 = M, 3 = Q, then the fused modules. The virtual nets join
\* the modules that are not fused.
FusedDesign(n, port, other, head) ==
    LET otherport == IF port = "a" THEN "b" ELSE "a"
        first == 4
        last == 3 + n
        chain == IF n = 0
                 THEN IF head THEN <<Net(1, "out", 2, port, Layer)>> ELSE <<>>
                 ELSE (IF head THEN <<Net(1, "out", first, "a", Layer)>> ELSE <<>>)
                      \o [i \in 1..(n - 1) |-> Net(first + i - 1, "out", first + i, "a", Layer)]
                      \o <<Net(last, "out", 2, port, Layer)>>
        extra == IF other THEN <<Net(3, "out", 2, otherport, Layer)>> ELSE <<>>
    IN  [modules |-> [m \in 1..(3 + n) |-> Module("PE", m > 3)],
         nets    |-> (IF head THEN <<Net(1, "out", 2, port, Layer)>> ELSE <<>>) \o extra,
         inputs  |-> chain \o extra]

FusedDesigns ==
    {FusedDesign(n, port, other, head) :
        n \in 0..MaxChain, port \in PEInputs, other \in BOOLEAN, head \in BOOLEAN}

FuseInit ==
    /\ fabric = GridFabric
    /\ design \in FusedDesigns
    /\ p_state \in {ps \in [modules_with_fused(design, FALSE) -> RouteLocs(fabric)] :
                       IsInjective(ps)}
    /\ graph = <<>>
    /\ asserted = <<>>
    /\ enabled = {}
    /\ rpc = "start"
    /\ net_i = 0
    /\ edge_i = 0
    /\ path = <<>>
    /\ invariant_check = <<>>
    /\ r_state = <<>>
    /\ PlaceIdle
    /\ DriverIdle
    /\ AttemptIdle
    /\ BuildIdle

FuseNext ==
    \/ BuildGraph
    \/ AssertConstraints

FuseSpec == FuseInit /\ [][FuseNext]_vars

\* the nearest producer that is not fused, walking back from s along the single
\* input of each fused module; none when the chain has no producer
RECURSIVE ChainHead(_, _)
ChainHead(d, s) ==
    IF ~d.modules[s].fused THEN {s}
    ELSE LET ins == {j \in 1..Len(InputNets(d)) : InputNets(d)[j].dst = s}
         IN  IF ins = {} THEN {}
             ELSE ChainHead(d, InputNets(d)[CHOOSE j \in ins : TRUE].src)

\* C21: in excl_constraints, for every non-fused module m1 and every input of m1
\* that comes through a chain of fused modules of any length, the contracted input
\* recorded for m1 is the nearest non-fused producer at the head of the chain, and
\* no unreachability constraint is emitted from that producer's source port to the
\* sink port of m1 that the chain enters.
C21_ContractedToHead ==
    rpc = "asserted" =>
        \A m1 \in modules_with_fused(design, FALSE) :
            \A j \in {i \in 1..Len(InputNets(design)) : InputNets(design)[i].dst = m1} :
                \A p \in ChainHead(design, InputNets(design)[j].src) :
                    /\ p \in contracted_inputs(design, m1)
                    /\ NotReaches(
                          graph.node[fabric.sources[Index(design, p_state, p, "out")]],
                          graph.node[fabric.sinks[Append(p_state[m1],
                                                         InputNets(design)[j].dst_port)]])
                         \notin asserted.excl

---------------------------------------------------------------------------
(* Properties of the fabric returned by parse_xml *)

\* side is a side of the tile (x, y) that lies on the boundary of the fabric
BoundarySide(x, y, side) ==
    \/ side = Side("W") /\ x = 0
    \/ side = Side("E") /\ x = fabric.cols - 1
    \/ side = Side("N") /\ y = 0
    \/ side = Side("S") /\ y = fabric.rows - 1

\* C23: after parse_xml, for every PE tile on the boundary of the fabric, every
\* boundary side of the tile and every track, the edge-side input port is a value of
\* the layer's sources and the off-edge output port is a value of the layer's sinks,
\* corner tiles and fabrics of one row or one column included.
C23_EdgePorts ==
    bpc = "built" =>
        \A loc \in fabric.pe_locations[TRUE] : \A i \in DOMAIN sides :
            BoundarySide(loc[1], loc[2], sides[i]) =>
                \A q \in DOMAIN heap.port :
                    (/\ heap.port[q].x = loc[1]
                     /\ heap.port[q].y = loc[2]
                     /\ heap.port[q].resource = sides[i]) =>
                        /\ heap.port[q].direction = "i" =>
                              q \in Range(fabric.layers[Layer].sources)
                        /\ heap.port[q].direction = "o" =>
                              q \in Range(fabric.layers[Layer].sinks)

---------------------------------------------------------------------------
(* WideSpec: the fabric builder on fabric files with more than ten tracks    *)

WideTracks == 11    \* tracks per side of a tile of a wide fabric file

\* fabric files of one row whose tiles have WideTracks tracks
WideXmls ==
    {Tiles(c, 1, WideTracks, wr.regs, wr.fts, wr.turn, {}) : c \in 1..Cols, wr \in Wirings}

WideInit ==
    /\ design \in RegDesigns
    /\ xml \in WideXmls
    /\ params = <<>>
    /\ heap = <<>>
    /\ bpc = "parse_xml"
    /\ PlaceIdle
    /\ RouteIdle
    /\ DriverIdle
    /\ AttemptIdle

WideSpec == WideInit /\ [][BuildNext]_vars

\* the register slots of a fabric file: (col, row, t) for every mux with reg = "1"
\* in a switch box of a PE tile, t being the track number of the mux's sink wire
RegSlots(root) ==
    UNION {UNION {{<<root[i].col, root[i].row, parse_name(root[i].sb[j].mux[k].snk)[4]>> :
                      k \in {n \in DOMAIN root[i].sb[j].mux : root[i].sb[j].mux[n].reg = "1"}} :
                  j \in DOMAIN root[i].sb} :
           i \in {n \in DOMAIN root : root[n].type \in {"none", "pe_tile_new"}}}

\* C24: the Reg location set of the Fabric is exactly the set of (col, row, t) such
\* that a PE tile at (col, row) has a switch-box mux with reg = "1" whose sink wire
\* has track number t, for every track number; no slot of a memory tile is in it.
C24_RegLocations ==
    bpc = "built" => fabric.locations.Reg = RegSlots(xml)

\* the tracks of the layer that get an edge: all but those out of a PE port on a
\* location that no module occupies
EdgeTracks ==
    {i \in 1..Len(fabric.tracks) :
        ~ (/\ PortById(fabric, fabric.tracks[i].src).resource = "PE"
           /\ <<PortById(fabric, fabric.tracks[i].src).x,
                PortById(fabric, fabric.tracks[i].src).y>> \notin Occupied(p_state))}

\* C25: build_msgraph creates exactly one edge for every track whose source is not a
\* PE port at an unoccupied location and none for the others; the edge goes from the
\* node of the track's src port to the node of its dst port, every port has exactly
\* one node however many tracks touch it (the nodes of the used PEs are reused), and
\* the edge-to-track map gives for every edge the track it was created from.
C25_EdgePerTrack ==
    rpc = "graph" =>
        /\ \A i \in EdgeTracks :
               Cardinality({e \in DOMAIN graph.edges : graph.edges[e].track = i}) = 1
        /\ \A e \in DOMAIN graph.edges :
               /\ graph.edges[e].track \in EdgeTracks
               /\ fabric.tracks[graph.edges[e].track].src \in DOMAIN graph.node
               /\ fabric.tracks[graph.edges[e].track].dst \in DOMAIN graph.node
               /\ graph.edges[e].u = graph.node[fabric.tracks[graph.edges[e].track].src]
               /\ graph.edges[e].v = graph.node[fabric.tracks[graph.edges[e].track].dst]
        /\ \A p, q \in DOMAIN graph.node : graph.node[p] = graph.node[q] => p = q
        /\ \A n \in 0..(3 * Len(UsedLocs(fabric, p_state)) - 1) :
               \E p \in DOMAIN graph.node :
                   /\ graph.node[p] = n
                   /\ PortById(fabric, p).resource = "PE"

\* a graph built for a placement that leaves a PE location free, with a track out of
\* that location's PE output, and with a pre-created PE node touched by two tracks
C25_Witness ==
    /\ rpc = "graph"
    /\ EdgeTracks # 1..Len(fabric.tracks)
    /\ \E e1, e2 \in DOMAIN graph.edges :
           /\ e1 # e2
           /\ graph.edges[e1].u = graph.edges[e2].u
           /\ graph.edges[e1].u < 3 * Len(UsedLocs(fabric, p_state))

\* C26: for every placed design, no (source port, sink port) pair is both required
\* reachable by reachability and required unreachable by excl_constraints, also when
\* one module drives both inputs a and b of the same PE through two nets.
C26_NoContradiction ==
    rpc = "asserted" =>
        \A k \in DOMAIN asserted.reach :
            NotReaches(asserted.reach[k].u, asserted.reach[k].v) \notin asserted.excl

---------------------------------------------------------------------------
(* LimitSpec: dist_limit called with the values a caller can pass *)

\* the values given to dist_limit: integers around the documented range, the two
\* bools, a float, a string and None
DistFactorValues ==
    {int(n) : n \in (-1)..MaxDistFactor} \cup
    {<<"bool", b>> : b \in BOOLEAN} \cup
    {<<"float", "1.5">>, str("2"), <<"NoneType", "None">>}

\* isinstance(v, int): bool is a subclass of int
isinstance_int(v) == v[1] \in {"int", "bool"}

\* the number an int or a bool is in arithmetic
NumberOf(v) == IF v[1] = "bool" THEN (IF v[2] THEN 1 ELSE 0) ELSE v[2]

\* dist_limit(v) raises ValueError: no constraint function is returned
DistLimitRaises ==
    /\ rpc = "graph"
    /\ \E v \in DistFactorValues : ~ isinstance_int(v)
    /\ rpc' = "ValueError"
    /\ UNCHANGED <<design, attemptVars, buildVars, placeVars, driverVars, fabric, p_state,
                   graph, asserted, enabled, net_i, edge_i, path, invariant_check, r_state>>

\* dist_limit(v) returns dist_constraints, which is applied with the other
\* routing constraints
DistLimitApplies ==
    \E v \in DistFactorValues :
        /\ isinstance_int(v)
        /\ ApplyRouteConstraints(NumberOf(v))

LimitNext ==
    \/ BuildGraph
    \/ DistLimitRaises
    \/ DistLimitApplies

LimitSpec == EmitInit /\ [][LimitNext]_vars

\* C27: dist_limit never yields a distance constraint for a dist_factor that is not
\* an integer >= 1: such a value is rejected with ValueError when dist_limit is
\* called, before any constraint is built.
C27_DistFactorValidated ==
    rpc = "asserted" => asserted.dist_factor >= 1

=============================================================================
